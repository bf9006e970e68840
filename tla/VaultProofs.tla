----------------------------- MODULE VaultProofs ----------------------------
(* Proofs about Vault, for any number of requests, pages, versions, foreign *)
(* pushes and faults.                                                       *)
EXTENDS Vault, TLAPS, FiniteSetTheorems

Ops == {"pull", "push", "touch"}
Steps == {"idle", "fetch", "clear", "restore", "empty", "fill", "commit", "upload",
          "scan", "write"}

\* Types of the variables.
TypeOK ==
    /\ wiki \in Contents
    /\ work \in Contents
    /\ base \in Contents \cup {NoCommit}
    /\ own \in Contents \cup {NoCommit}
    /\ remote \in Contents
    /\ behind \in BOOLEAN
    /\ dirty \in BOOLEAN
    /\ step \in [Threads -> Steps]
    /\ todo \in [Threads -> Seq(Ops)]
    /\ files \in [Threads -> SUBSET Pages]
    /\ online \in BOOLEAN
    /\ risk \in BOOLEAN
    /\ requests \in Nat
    /\ foreign \in Nat
    /\ faults \in Nat

\* What the commits are to each other, and that a push has a clone, whatever overlaps.
CommitsInv ==
    /\ ~ Cloned => ~ behind /\ own = NoCommit
    /\ Cloned /\ ~ behind => base = remote
    /\ \A t \in Threads : step[t] \in {"fill", "commit", "upload"} => Cloned

\* A page that is in the work tree or that a push is about to copy there.
InWork(p) ==
    \/ work.pages[p] # Absent
    \/ \E t \in Threads : step[t] = "fill" /\ p \in files[t]

\* A page that is in the wiki or that a pull is about to copy there.
InWiki(p) ==
    \/ wiki.pages[p] # Absent
    \/ \E t \in Threads : step[t] = "clear" \/ (step[t] = "restore" /\ p \in files[t])

\* A page of the last commits this server knows of.
InCommit(p) ==
    \/ Cloned /\ base.pages[p] # Absent
    \/ own # NoCommit /\ own.pages[p] # Absent

Alone == \A t, u \in Threads : step[t] \in Copying /\ step[u] \in Copying => t = u

\* No page gets lost on its way around: a copy to either side has a page, or will.
PagesInv ==
    /\ Alone
    /\ own # NoCommit => PagesOf(base) \subseteq PagesOf(own)
    /\ \A p \in Pages : InCommit(p) => InWork(p)
    /\ \A p \in Pages : InWork(p) => InWiki(p)

IInv == TypeOK /\ CommitsInv /\ (~ risk => PagesInv)

-----------------------------------------------------------------------------
(* Types. *)

Resting == {"idle", "fetch", "empty", "scan"}

\* Begin moves one thread, to the first step of an operation or to rest.
LEMMA BeginEffect ==
    ASSUME TypeOK, NEW t \in Threads, NEW ops \in Seq(Ops), Begin(t, ops)
    PROVE  /\ step' \in [Threads -> Steps]
           /\ todo' \in [Threads -> Seq(Ops)]
           /\ files' = [files EXCEPT ![t] = {}]
           /\ step' = [step EXCEPT ![t] = step'[t]]
           /\ step'[t] \in Resting
<1>1. CASE ops = <<>>
    BY <1>1 DEF Begin, TypeOK, Steps, Resting
<1>2. CASE ops # <<>>
  <2>1. Head(ops) \in Ops /\ Tail(ops) \in Seq(Ops)
      BY <1>2
  <2>2. FirstStep[Head(ops)] \in {"fetch", "empty", "scan"}
      BY <2>1 DEF FirstStep, Ops
  <2> QED
      BY <1>2, <2>1, <2>2 DEF Begin, TypeOK, Steps, Resting
<1> QED
    BY <1>1, <1>2

LEMMA DoneEffect ==
    ASSUME TypeOK, NEW t \in Threads, Done(t)
    PROVE  /\ step' \in [Threads -> Steps]
           /\ todo' \in [Threads -> Seq(Ops)]
           /\ files' = [files EXCEPT ![t] = {}]
           /\ step' = [step EXCEPT ![t] = step'[t]]
           /\ step'[t] \in Resting
<1>1. todo[t] \in Seq(Ops)
    BY DEF TypeOK
<1> QED
    BY <1>1, BeginEffect DEF Done

LEMMA AbortEffect ==
    ASSUME TypeOK, NEW t \in Threads, Abort(t)
    PROVE  /\ step' \in [Threads -> Steps]
           /\ todo' \in [Threads -> Seq(Ops)]
           /\ files' = [files EXCEPT ![t] = {}]
           /\ step' = [step EXCEPT ![t] = step'[t]]
           /\ step'[t] \in Resting
           /\ risk' = TRUE
<1>1. <<>> \in Seq(Ops)
    OBVIOUS
<1>2. Begin(t, <<>>) /\ risk' = TRUE
    BY DEF Abort
<1> QED
    BY <1>1, <1>2, BeginEffect

LEMMA GoToEffect ==
    ASSUME TypeOK, NEW t \in Threads, NEW s \in Steps, NEW fs \in SUBSET Pages, GoTo(t, s, fs)
    PROVE  /\ step' \in [Threads -> Steps]
           /\ todo' \in [Threads -> Seq(Ops)]
           /\ files' \in [Threads -> SUBSET Pages]
           /\ step' = [step EXCEPT ![t] = s]
           /\ files' = [files EXCEPT ![t] = fs]
    BY DEF GoTo, TypeOK

LEMMA AskedType ==
    ASSUME NEW pull \in BOOLEAN, NEW push \in BOOLEAN
    PROVE  /\ Asked(pull, push) \in Seq(Ops)
           /\ Asked(pull, push) \o <<"touch">> \in Seq(Ops)
<1> DEFINE a == IF pull THEN <<"pull">> ELSE <<>>
           b == IF push THEN <<"push">> ELSE <<>>
<1>3. <<"pull">> \in Seq(Ops) /\ <<"push">> \in Seq(Ops) /\ <<"touch">> \in Seq(Ops)
  <2>1. "pull" \in Ops /\ "push" \in Ops /\ "touch" \in Ops
      BY DEF Ops
  <2> QED
      BY <2>1
<1>4. <<>> \in Seq(Ops)
    OBVIOUS
<1>1. a \in Seq(Ops) /\ b \in Seq(Ops) /\ <<"touch">> \in Seq(Ops)
    BY <1>3, <1>4
<1>2. Asked(pull, push) = a \o b
    BY DEF Asked
<1> HIDE DEF a, b
<1> QED
    BY <1>1, <1>2

\* Setting one page of a directory.
LEMMA SetPage ==
    ASSUME NEW c \in Contents, NEW p \in Pages, NEW v \in Versions \cup {Absent},
           NEW d, d = [c EXCEPT !.pages[p] = v]
    PROVE  /\ d \in Contents
           /\ d.pages = [c.pages EXCEPT ![p] = v]
           /\ d.index = c.index
    BY DEF Contents

LEMMA SetIndex ==
    ASSUME NEW c \in Contents, NEW i \in SUBSET Pages, NEW d, d = [c EXCEPT !.index = i]
    PROVE  d \in Contents /\ d.pages = c.pages
    BY DEF Contents

LEMMA EmptyType == Empty \in Contents /\ \A p \in Pages : Empty.pages[p] = Absent
    BY DEF Empty, Contents

LEMMA ListedType == ASSUME NEW found PROVE Listed(found) \in SUBSET Pages
    BY VaultAssumption DEF Listed

LEMMA StartType == Start \in Contents
    BY VaultAssumption, ListedType DEF Start, Contents

LEMMA PulledType ==
    ASSUME TypeOK, NEW index \in PulledIndex
    PROVE  Pulled(index) \in Contents
<1>1. CASE ~ Cloned
    BY <1>1 DEF Pulled, TypeOK
<1>2. CASE Cloned /\ ~ behind
    BY <1>2 DEF Pulled, TypeOK
<1>3. CASE Cloned /\ behind
  <2> DEFINE new == [p \in Pages |-> IF remote.pages[p] # base.pages[p] THEN remote.pages[p]
                                     ELSE work.pages[p]]
  <2>1. new \in [Pages -> Versions \cup {Absent}] /\ index \in SUBSET Pages
      BY DEF TypeOK, Contents, PulledIndex
  <2>2. Pulled(index) = [pages |-> new, index |-> index]
      BY <1>3 DEF Pulled
  <2> HIDE DEF new
  <2> QED
      BY <2>1, <2>2 DEF Contents
<1> QED
    BY <1>1, <1>2, <1>3

\* A thread that begins the operations it was asked for, and writes at most a page.
LEMMA AskEffect ==
    ASSUME TypeOK, NEW t \in Threads, NEW ops \in Seq(Ops), Ask(t, ops)
    PROVE  /\ step[t] = "idle"
           /\ step' \in [Threads -> Steps]
           /\ todo' \in [Threads -> Seq(Ops)]
           /\ files' = [files EXCEPT ![t] = {}]
           /\ step' = [step EXCEPT ![t] = step'[t]]
           /\ step'[t] \in Resting
           /\ requests' \in Nat
           /\ UNCHANGED <<work, Repository, online, risk, foreign, faults>>
<1>1. Begin(t, ops)
    BY DEF Ask
<1> QED
    BY <1>1, BeginEffect DEF Ask, TypeOK

\* Every step keeps the types.
LEMMA TypeStep ==
    ASSUME TypeOK, [Next]_vars
    PROVE  TypeOK'
<1> DEFINE Rest == /\ online' \in BOOLEAN /\ risk' \in BOOLEAN /\ requests' \in Nat
                   /\ foreign' \in Nat /\ faults' \in Nat
           Places == /\ step' \in [Threads -> Steps] /\ todo' \in [Threads -> Seq(Ops)]
                     /\ files' \in [Threads -> SUBSET Pages]
           Commits == /\ base' \in Contents \cup {NoCommit} /\ own' \in Contents \cup {NoCommit}
                      /\ remote' \in Contents /\ behind' \in BOOLEAN /\ dirty' \in BOOLEAN
<1> SUFFICES wiki' \in Contents /\ work' \in Contents /\ Commits /\ Places /\ Rest
    BY DEF TypeOK
<1> USE DEF Repository, Environment
<1>0. ASSUME NEW c \in Contents PROVE PagesOf(c) \in SUBSET Pages
    BY DEF PagesOf
<1>1. CASE UNCHANGED vars
    BY <1>1 DEF vars, TypeOK
<1>2. ASSUME NEW pull \in BOOLEAN, NEW push \in BOOLEAN, StartJob(pull, push)
      PROVE  wiki' \in Contents /\ work' \in Contents /\ Commits /\ Places /\ Rest
  <2>1. Begin(Job, Asked(pull, push) \o <<"touch">>) /\ Job \in Threads
      BY <1>2 DEF StartJob, Threads
  <2>2. Places
      BY <2>1, AskedType, BeginEffect DEF TypeOK
  <2> QED
      BY <1>2, <2>2 DEF StartJob, TypeOK
<1>3. ASSUME NEW t \in Requests, NEW ops \in Seq(Ops), Ask(t, ops), wiki' \in Contents
      PROVE  wiki' \in Contents /\ work' \in Contents /\ Commits /\ Places /\ Rest
  <2>1. t \in Threads
      BY DEF Threads
  <2> QED
      BY <1>3, <2>1, AskEffect DEF TypeOK
<1>4. ASSUME NEW t \in Requests, NEW pull \in BOOLEAN, NEW push \in BOOLEAN,
             VaultSync(t, pull, push)
      PROVE  wiki' \in Contents /\ work' \in Contents /\ Commits /\ Places /\ Rest
    BY <1>3, <1>4, AskedType DEF VaultSync, TypeOK
<1>5. ASSUME NEW t \in Requests, Lint(t)
      PROVE  wiki' \in Contents /\ work' \in Contents /\ Commits /\ Places /\ Rest
  <2>1. <<"touch">> \in Seq(Ops)
    <3>1. "touch" \in Ops
        BY DEF Ops
    <3> QED
        BY <3>1
  <2> QED
      BY <1>3, <1>5, <2>1 DEF Lint, TypeOK
<1>6. ASSUME NEW t \in Requests, NEW p \in Pages, NEW v \in Versions,
             SavePage(t, p, v) \/ SaveAnswer(t, p, v)
      PROVE  wiki' \in Contents /\ work' \in Contents /\ Commits /\ Places /\ Rest
  <2>1. wiki' \in Contents
    <3>1. wiki \in Contents /\ wiki' = [wiki EXCEPT !.pages[p] = v]
        BY <1>6 DEF SavePage, SaveAnswer, TypeOK
    <3> QED
        BY <3>1, SetPage
  <2>2. <<"touch">> \in Seq(Ops) /\ <<>> \in Seq(Ops)
    <3>1. "touch" \in Ops
        BY DEF Ops
    <3> QED
        BY <3>1
  <2> QED
      BY <1>3, <1>6, <2>1, <2>2 DEF SavePage, SaveAnswer
<1>7. ASSUME NEW t \in Threads, Fetch(t)
      PROVE  wiki' \in Contents /\ work' \in Contents /\ Commits /\ Places /\ Rest
  <2>1. work' \in Contents
      BY <1>7, PulledType DEF Fetch, TypeOK
  <2>2. Places
    <3>1. CASE Done(t)
        BY <3>1, DoneEffect DEF TypeOK
    <3>2. CASE GoTo(t, "clear", {})
        BY <3>2, GoToEffect DEF Steps
    <3> QED
        BY <1>7, <3>1, <3>2 DEF Fetch
  <2>3. base' \in Contents \cup {NoCommit} /\ behind' \in BOOLEAN
      BY <1>7 DEF Fetch, TypeOK
  <2> QED
      BY <1>7, <2>1, <2>2, <2>3 DEF Fetch, Watch, Overlap, TypeOK
<1>8. ASSUME NEW t \in Threads, Clear(t)
      PROVE  wiki' \in Contents /\ work' \in Contents /\ Commits /\ Places /\ Rest
  <2>1. Places
    <3>1. PagesOf(work) \in SUBSET Pages /\ "restore" \in Steps
        BY <1>0 DEF TypeOK, Steps
    <3> QED
        BY <1>8, <3>1, GoToEffect DEF Clear
  <2> QED
      BY <1>8, <2>1, EmptyType DEF Clear, Watch, Overlap, TypeOK
<1>9. ASSUME NEW t \in Threads, ClearFails(t)
      PROVE  wiki' \in Contents /\ work' \in Contents /\ Commits /\ Places /\ Rest
  <2>1. PICK gone \in SUBSET PagesOf(wiki) :
           wiki' = [wiki EXCEPT !.pages = [p \in Pages |-> IF p \in gone THEN Absent ELSE @[p]]]
      BY <1>9 DEF ClearFails
  <2>2. wiki' \in Contents
      BY <2>1 DEF TypeOK, Contents
  <2>3. Places /\ risk' = TRUE
      BY <1>9, AbortEffect DEF ClearFails, TypeOK
  <2> QED
      BY <1>9, <2>2, <2>3 DEF ClearFails, TypeOK
<1>10. ASSUME NEW t \in Threads, Restore(t)
      PROVE  wiki' \in Contents /\ work' \in Contents /\ Commits /\ Places /\ Rest
  <2>1. CASE files[t] = {}
    <3>1. work.index \in SUBSET Pages
        BY DEF TypeOK, Contents
    <3>2. wiki' \in Contents
        BY <1>10, <2>1, <3>1, SetIndex DEF Restore, TypeOK
    <3> QED
        BY <1>10, <2>1, <3>2, DoneEffect DEF Restore, Watch, Overlap, TypeOK
  <2>2. CASE files[t] # {}
    <3>1. PICK p \in files[t] :
             IF work.pages[p] = Absent THEN Abort(t) /\ UNCHANGED wiki
             ELSE /\ wiki' = [wiki EXCEPT !.pages[p] = work.pages[p]]
                  /\ GoTo(t, "restore", files[t] \ {p})
                  /\ Watch
        BY <1>10, <2>2 DEF Restore
    <3>2. p \in Pages /\ work.pages[p] \in Versions \cup {Absent}
        BY DEF TypeOK, Contents
    <3>3. CASE work.pages[p] = Absent
        BY <1>10, <3>1, <3>3, AbortEffect DEF Restore, TypeOK
    <3>4. CASE work.pages[p] # Absent
      <4>0. wiki \in Contents /\ wiki' = [wiki EXCEPT !.pages[p] = work.pages[p]]
          BY <3>1, <3>4 DEF TypeOK
      <4>1. wiki' \in Contents
          BY <3>2, <4>0, SetPage
      <4>2. Places
        <5>1. files[t] \ {p} \in SUBSET Pages /\ "restore" \in Steps
            BY DEF TypeOK, Steps
        <5> QED
            BY <3>1, <3>4, <5>1, GoToEffect
      <4> QED
          BY <1>10, <3>1, <3>4, <4>1, <4>2 DEF Restore, Watch, Overlap, TypeOK
    <3> QED
        BY <3>3, <3>4
  <2> QED
      BY <2>1, <2>2
<1>11. ASSUME NEW t \in Threads, EmptyWork(t)
      PROVE  wiki' \in Contents /\ work' \in Contents /\ Commits /\ Places /\ Rest
  <2>1. CASE ~ Cloned /\ ~ online
      BY <1>11, <2>1, DoneEffect DEF EmptyWork, Overlap, TypeOK
  <2>2. CASE ~ (~ Cloned /\ ~ online)
    <3>1. \/ work' = Empty /\ GoTo(t, "fill", PagesOf(wiki))
          \/ work' = (IF Cloned THEN work ELSE remote) /\ GoTo(t, "commit", {})
        BY <1>11, <2>2 DEF EmptyWork
    <3>2. work' \in Contents
        BY <3>1, EmptyType DEF TypeOK
    <3>3. PagesOf(wiki) \in SUBSET Pages /\ {} \in SUBSET Pages
        BY <1>0 DEF TypeOK
    <3>4. Places
        BY <3>1, <3>3, GoToEffect DEF Steps
    <3> QED
        BY <1>11, <2>2, <3>2, <3>4 DEF EmptyWork, Overlap, TypeOK
  <2> QED
      BY <2>1, <2>2
<1>12. ASSUME NEW t \in Threads, Fill(t)
      PROVE  wiki' \in Contents /\ work' \in Contents /\ Commits /\ Places /\ Rest
  <2>1. CASE files[t] = {}
    <3>1. wiki.index \in SUBSET Pages /\ {} \in SUBSET Pages /\ "commit" \in Steps
        BY DEF TypeOK, Contents, Steps
    <3>2. work' \in Contents
        BY <1>12, <2>1, <3>1, SetIndex DEF Fill, TypeOK
    <3>3. Places
        BY <1>12, <2>1, <3>1, GoToEffect DEF Fill
    <3> QED
        BY <1>12, <2>1, <3>2, <3>3 DEF Fill, Watch, Overlap, TypeOK
  <2>2. CASE files[t] # {}
    <3>1. PICK p \in files[t] :
             IF wiki.pages[p] = Absent THEN Abort(t) /\ UNCHANGED work
             ELSE /\ work' = [work EXCEPT !.pages[p] = wiki.pages[p]]
                  /\ GoTo(t, "fill", files[t] \ {p})
                  /\ Watch
        BY <1>12, <2>2 DEF Fill
    <3>2. p \in Pages /\ wiki.pages[p] \in Versions \cup {Absent}
        BY DEF TypeOK, Contents
    <3>3. CASE wiki.pages[p] = Absent
        BY <1>12, <3>1, <3>3, AbortEffect DEF Fill, TypeOK
    <3>4. CASE wiki.pages[p] # Absent
      <4>0. work \in Contents /\ work' = [work EXCEPT !.pages[p] = wiki.pages[p]]
          BY <3>1, <3>4 DEF TypeOK
      <4>1. work' \in Contents
          BY <3>2, <4>0, SetPage
      <4>2. Places
        <5>1. files[t] \ {p} \in SUBSET Pages /\ "fill" \in Steps
            BY DEF TypeOK, Steps
        <5> QED
            BY <3>1, <3>4, <5>1, GoToEffect
      <4> QED
          BY <1>12, <3>1, <3>4, <4>1, <4>2 DEF Fill, Watch, Overlap, TypeOK
    <3> QED
        BY <3>3, <3>4
  <2> QED
      BY <2>1, <2>2
<1>13. ASSUME NEW t \in Threads, Commit(t)
      PROVE  wiki' \in Contents /\ work' \in Contents /\ Commits /\ Places /\ Rest
  <2>1. Places
    <3>1. CASE Done(t)
        BY <3>1, DoneEffect DEF TypeOK
    <3>2. CASE GoTo(t, "upload", {})
        BY <3>2, GoToEffect DEF Steps
    <3> QED
        BY <1>13, <3>1, <3>2 DEF Commit
  <2> QED
      BY <1>13, <2>1 DEF Commit, Watch, Overlap, TypeOK
<1>14. ASSUME NEW t \in Threads, Upload(t)
      PROVE  wiki' \in Contents /\ work' \in Contents /\ Commits /\ Places /\ Rest
    BY <1>14, DoneEffect DEF Upload, Watch, Overlap, TypeOK
<1>15. ASSUME NEW t \in Threads, Scan(t)
      PROVE  wiki' \in Contents /\ work' \in Contents /\ Commits /\ Places /\ Rest
  <2>1. PagesOf(wiki) \in SUBSET Pages /\ "write" \in Steps
      BY <1>0 DEF TypeOK, Steps
  <2> QED
      BY <1>15, <2>1, GoToEffect DEF Scan, TypeOK
<1>16. ASSUME NEW t \in Threads, WriteIndex(t)
      PROVE  wiki' \in Contents /\ work' \in Contents /\ Commits /\ Places /\ Rest
  <2>1. Listed(files[t]) \in SUBSET Pages
      BY ListedType
  <2>2. wiki' \in Contents
      BY <1>16, <2>1, SetIndex DEF WriteIndex, TypeOK
  <2> QED
      BY <1>16, <2>2, DoneEffect DEF WriteIndex, TypeOK
<1>17. CASE ForeignPush
  <2>1. PICK p \in Pages, v \in Versions :
           LET new == [remote.pages EXCEPT ![p] = v]
           IN  \E index \in {remote.index, Listed({q \in Pages : new[q] # Absent})} :
                  remote' = [pages |-> new, index |-> index]
      BY <1>17 DEF ForeignPush
  <2>2. remote' \in Contents
    <3>1. PICK index : /\ index \in {remote.index, Listed({q \in Pages : [remote.pages EXCEPT ![p] = v][q] # Absent})}
                       /\ remote' = [pages |-> [remote.pages EXCEPT ![p] = v], index |-> index]
        BY <2>1
    <3>2. index \in SUBSET Pages
        BY <3>1, ListedType DEF TypeOK, Contents
    <3> QED
        BY <3>1, <3>2 DEF TypeOK, Contents
  <2>3. /\ UNCHANGED <<wiki, work, base, own, dirty, step, todo, files, online, risk, requests,
                      faults>>
        /\ foreign' = foreign + 1
        /\ behind' \in BOOLEAN
      BY <1>17 DEF ForeignPush, Cloned
  <2> QED
      BY <2>2, <2>3 DEF TypeOK
<1>18. CASE Outage
  <2>1. /\ UNCHANGED <<wiki, work, base, own, remote, behind, dirty, step, todo, files, risk,
                      requests, foreign>>
        /\ faults' = faults + 1
        /\ online' = FALSE
      BY <1>18 DEF Outage
  <2>2. online' \in BOOLEAN
      BY <2>1
  <2>3. faults' \in Nat
      BY <2>1 DEF TypeOK
  <2> QED
      BY <2>1, <2>2, <2>3 DEF TypeOK
<1>21. CASE Recover
    BY <1>21 DEF Recover, TypeOK
<1>19. CASE Crash
    BY <1>19 DEF Crash, TypeOK, Steps
<1>20. CASE JobFails
  <2>1. Job \in Threads /\ <<>> \in Seq(Ops)
      BY DEF Threads
  <2>2. Places
      BY <1>20, <2>1, BeginEffect DEF JobFails, TypeOK
  <2> QED
      BY <1>20, <2>2 DEF JobFails, TypeOK
<1>22. ASSUME NEW t \in Threads, CommitFails(t)
      PROVE  wiki' \in Contents /\ work' \in Contents /\ Commits /\ Places /\ Rest
  <2>1. Places
    <3>1. <<>> \in Seq(Ops)
        OBVIOUS
    <3> QED
        BY <1>22, <3>1, BeginEffect, DoneEffect DEF CommitFails, TypeOK
  <2>2. faults' \in Nat
      BY <1>22 DEF CommitFails, TypeOK
  <2> QED
      BY <1>22, <2>1, <2>2 DEF CommitFails, Watch, Overlap, TypeOK
<1> QED
    BY <1>1, <1>2, <1>4, <1>5, <1>6, <1>7, <1>8, <1>9, <1>10, <1>11, <1>12, <1>13, <1>14,
       <1>15, <1>16, <1>17, <1>18, <1>19, <1>20, <1>21, <1>22 DEF Next, Run

-----------------------------------------------------------------------------
(* Commits. *)

\* The clone is there when a push copies, commits or uploads, and the commits that the
\* work tree has are those of the vault unless it is known to be behind.
LEMMA CommitsStep ==
    ASSUME TypeOK, CommitsInv, [Next]_vars
    PROVE  CommitsInv'
<1> USE DEF Repository, Environment
<1>0. ASSUME UNCHANGED Repository,
             NEW t \in Threads, step' = [step EXCEPT ![t] = step'[t]],
             step'[t] \in {"fill", "commit", "upload"} => Cloned
      PROVE  CommitsInv'
    BY <1>0 DEF CommitsInv, Cloned, TypeOK
<1>1. CASE UNCHANGED vars
    BY <1>1 DEF vars, CommitsInv, Cloned
<1>2. ASSUME NEW pull \in BOOLEAN, NEW push \in BOOLEAN, StartJob(pull, push)
      PROVE  CommitsInv'
  <2>1. Begin(Job, Asked(pull, push) \o <<"touch">>) /\ Job \in Threads
      BY <1>2 DEF StartJob, Threads
  <2>2. step' = [step EXCEPT ![Job] = step'[Job]] /\ step'[Job] \in Resting
      BY <2>1, AskedType, BeginEffect
  <2> QED
      BY <1>0, <1>2, <2>1, <2>2 DEF StartJob, Resting
<1>3. ASSUME NEW t \in Requests, NEW ops \in Seq(Ops), Ask(t, ops)
      PROVE  CommitsInv'
  <2>1. t \in Threads
      BY DEF Threads
  <2>2. step' = [step EXCEPT ![t] = step'[t]] /\ step'[t] \in Resting /\ UNCHANGED Repository
      BY <1>3, <2>1, AskEffect
  <2> QED
      BY <1>0, <2>1, <2>2 DEF Resting
<1>4. ASSUME NEW t \in Requests, NEW pull \in BOOLEAN, NEW push \in BOOLEAN,
             VaultSync(t, pull, push)
      PROVE  CommitsInv'
    BY <1>3, <1>4, AskedType DEF VaultSync
<1>5. ASSUME NEW t \in Requests,
             \/ Lint(t)
             \/ \E p \in Pages, v \in Versions : SavePage(t, p, v) \/ SaveAnswer(t, p, v)
      PROVE  CommitsInv'
  <2>1. <<"touch">> \in Seq(Ops) /\ <<>> \in Seq(Ops)
    <3>1. "touch" \in Ops
        BY DEF Ops
    <3> QED
        BY <3>1
  <2> QED
      BY <1>3, <1>5, <2>1 DEF Lint, SavePage, SaveAnswer
<1>6. ASSUME NEW t \in Threads, Fetch(t)
      PROVE  CommitsInv'
  <2>1. step' = [step EXCEPT ![t] = step'[t]] /\ step'[t] \in Resting \cup {"clear"}
    <3>1. CASE Done(t)
        BY <3>1, DoneEffect
    <3>2. CASE GoTo(t, "clear", {})
        BY <3>2, GoToEffect DEF Steps
    <3> QED
        BY <1>6, <3>1, <3>2 DEF Fetch
  <2>2. CASE base' = (IF Cloned /\ ~ behind THEN base ELSE remote) /\ behind' = FALSE
    <3>1. base' = (IF Cloned /\ ~ behind THEN base ELSE remote) /\ behind' = FALSE
        BY <2>2
    <3>2. own' = own /\ remote' = remote
        BY <1>6 DEF Fetch
    <3>3. base' = remote /\ base' # NoCommit
        BY <3>1, VaultAssumption DEF CommitsInv, Cloned, TypeOK
    <3>4. \A u \in Threads : step'[u] \in {"fill", "commit", "upload"} => u # t
        BY <2>1 DEF Resting
    <3> QED
        BY <2>1, <3>1, <3>2, <3>3, <3>4 DEF CommitsInv, Cloned, TypeOK
  <2>3. CASE UNCHANGED <<base, behind>>
      BY <1>0, <1>6, <2>1, <2>3 DEF Fetch, Resting
  <2> QED
      BY <1>6, <2>2, <2>3 DEF Fetch
<1>7. ASSUME NEW t \in Threads, Clear(t) \/ ClearFails(t) \/ Restore(t)
      PROVE  CommitsInv'
  <2>1. PagesOf(work) \in SUBSET Pages /\ (\A p \in files[t] : files[t] \ {p} \in SUBSET Pages)
      BY DEF PagesOf, TypeOK
  <2>2. step' = [step EXCEPT ![t] = step'[t]] /\ step'[t] \in Resting \cup {"restore"}
    <3>1. CASE Done(t) \/ Abort(t)
        BY <3>1, DoneEffect, AbortEffect
    <3>2. ASSUME NEW fs \in SUBSET Pages, GoTo(t, "restore", fs)
          PROVE  step' = [step EXCEPT ![t] = step'[t]] /\ step'[t] \in Resting \cup {"restore"}
        BY <3>2, GoToEffect DEF Steps, TypeOK
    <3>3. \/ Done(t) \/ Abort(t)
          \/ \E fs \in SUBSET Pages : GoTo(t, "restore", fs)
        BY <1>7, <2>1 DEF Clear, ClearFails, Restore
    <3> QED
        BY <3>1, <3>2, <3>3
  <2> QED
      BY <1>0, <1>7, <2>2 DEF Clear, ClearFails, Restore, Resting
<1>8. ASSUME NEW t \in Threads, EmptyWork(t)
      PROVE  CommitsInv'
  <2>1. CASE ~ Cloned /\ ~ online
    <3>1. step' = [step EXCEPT ![t] = step'[t]] /\ step'[t] \in Resting /\ UNCHANGED Repository
        BY <1>8, <2>1, DoneEffect DEF EmptyWork
    <3> QED
        BY <1>0, <3>1 DEF Resting
  <2>2. CASE ~ (~ Cloned /\ ~ online)
    <3>1. \/ GoTo(t, "fill", PagesOf(wiki))
          \/ GoTo(t, "commit", {})
        BY <1>8, <2>2 DEF EmptyWork
    <3>2. PagesOf(wiki) \in SUBSET Pages /\ {} \in SUBSET Pages
        BY DEF PagesOf
    <3>3. step' \in [Threads -> Steps]
        BY <3>1, <3>2, GoToEffect DEF Steps
    <3>4. base' = (IF Cloned THEN base ELSE remote) /\ UNCHANGED <<own, remote, behind>>
        BY <1>8, <2>2 DEF EmptyWork
    <3>5. base' # NoCommit
        BY <3>4, VaultAssumption DEF Cloned, TypeOK
    <3>6. ~ behind' => base' = remote'
        BY <3>4 DEF CommitsInv, Cloned
    <3> QED
        BY <3>5, <3>6 DEF CommitsInv, Cloned
  <2> QED
      BY <2>1, <2>2
<1>9. ASSUME NEW t \in Threads, Fill(t) \/ Commit(t)
      PROVE  CommitsInv'
  <2>1. Cloned
      BY <1>9 DEF Fill, Commit, CommitsInv
  <2>2. \A p \in files[t] : files[t] \ {p} \in SUBSET Pages
      BY DEF TypeOK
  <2>3. step' = [step EXCEPT ![t] = step'[t]]
    <3>1. CASE Done(t) \/ Abort(t)
        BY <3>1, DoneEffect, AbortEffect
    <3>2. ASSUME NEW fs \in SUBSET Pages, NEW s \in Steps, GoTo(t, s, fs)
          PROVE  step' = [step EXCEPT ![t] = step'[t]]
        BY <3>2, GoToEffect DEF TypeOK
    <3>3. \/ Done(t) \/ Abort(t)
          \/ \E fs \in SUBSET Pages, s \in Steps : GoTo(t, s, fs)
      <4>1. {"fill", "commit", "upload"} \subseteq Steps /\ {} \in SUBSET Pages
          BY DEF Steps
      <4> QED
          BY <1>9, <2>2, <4>1 DEF Fill, Commit
    <3> QED
        BY <3>1, <3>2, <3>3
  <2>4. base' = base /\ remote' = remote /\ behind' = behind
      BY <1>9 DEF Fill, Commit
  <2> QED
      BY <2>1, <2>3, <2>4 DEF CommitsInv, Cloned
<1>10. ASSUME NEW t \in Threads, Upload(t)
      PROVE  CommitsInv'
  <2>1. step' = [step EXCEPT ![t] = step'[t]] /\ step'[t] \in Resting
      BY <1>10, DoneEffect DEF Upload
  <2>2. CASE online /\ own # NoCommit /\ ~ behind
    <3>1. remote' = own /\ base' = own /\ own # NoCommit
        BY <1>10, <2>2 DEF Upload
    <3> QED
        BY <3>1 DEF CommitsInv, Cloned
  <2>3. CASE ~ (online /\ own # NoCommit /\ ~ behind)
      BY <1>0, <1>10, <2>1, <2>3 DEF Upload, Resting
  <2> QED
      BY <2>2, <2>3
<1>11. ASSUME NEW t \in Threads, Scan(t)
      PROVE  CommitsInv'
  <2>1. PagesOf(wiki) \in SUBSET Pages
      BY DEF PagesOf
  <2>2. step' = [step EXCEPT ![t] = step'[t]] /\ step'[t] = "write"
      BY <1>11, <2>1, GoToEffect DEF Scan, Steps, TypeOK
  <2> QED
      BY <1>0, <1>11, <2>2 DEF Scan
<1>12. ASSUME NEW t \in Threads, WriteIndex(t)
      PROVE  CommitsInv'
    BY <1>0, <1>12, DoneEffect DEF WriteIndex, Resting
<1>13. CASE ForeignPush
    BY <1>13 DEF ForeignPush, CommitsInv, Cloned
<1>14. CASE Outage \/ Recover
    BY <1>14 DEF Outage, Recover, CommitsInv, Cloned
<1>15. CASE Crash
    BY <1>15 DEF Crash, CommitsInv, Cloned
<1>16. CASE JobFails
  <2>1. Job \in Threads /\ <<>> \in Seq(Ops)
      BY DEF Threads
  <2> QED
      BY <1>0, <1>16, <2>1, BeginEffect DEF JobFails, Resting
<1>17. ASSUME NEW t \in Threads, CommitFails(t)
      PROVE  CommitsInv'
  <2>1. <<>> \in Seq(Ops)
      OBVIOUS
  <2>2. step' = [step EXCEPT ![t] = step'[t]] /\ step'[t] \in Resting
      BY <1>17, <2>1, BeginEffect, DoneEffect DEF CommitFails
  <2>3. base' = base /\ own' = own /\ remote' = remote /\ behind' = behind
      BY <1>17 DEF CommitFails
  <2> QED
      BY <2>2, <2>3 DEF CommitsInv, Cloned, TypeOK, Resting
<1> QED
    BY <1>1, <1>2, <1>4, <1>5, <1>6, <1>7, <1>8, <1>9, <1>10, <1>11, <1>12, <1>13, <1>14,
       <1>15, <1>16, <1>17 DEF Next, Run

-----------------------------------------------------------------------------
(* Pages. *)

LEMMA ThreadsAreFinite == IsFiniteSet(Threads)
    BY VaultAssumption, FS_Singleton, FS_Union DEF Threads

\* No overlap means at most one thread that copies.
LEMMA NoOverlapIsAlone ==
    ASSUME NEW now, ~ Overlap(now),
           NEW t \in Threads, NEW u \in Threads, now[t] \in Copying, now[u] \in Copying
    PROVE  t = u
<1> SUFFICES ASSUME t # u PROVE FALSE
    OBVIOUS
<1> DEFINE C == {x \in Threads : now[x] \in Copying}
<1>1. IsFiniteSet(C) /\ Cardinality(C) \in Nat
  <2>1. C \in SUBSET Threads
      OBVIOUS
  <2> HIDE DEF C
  <2> QED
      BY <2>1, ThreadsAreFinite, FS_Subset, FS_CardinalityType
<1>2. IsFiniteSet({t}) /\ Cardinality({t}) = 1
    BY FS_Singleton
<1>3. Cardinality({t} \cup {u}) = 2
  <2>1. u \notin {t}
      OBVIOUS
  <2>2. \A S : IsFiniteSet(S) /\ Cardinality(S) = 1 /\ u \notin S
                 => Cardinality(S \cup {u}) = 1 + 1
      BY FS_AddElement
  <2> QED
      BY <1>2, <2>1, <2>2
<1>4. ({t} \cup {u}) \in SUBSET C
    OBVIOUS
<1>5. ~ (Cardinality(C) > 1)
    BY DEF Overlap
<1> HIDE DEF C
<1>6. Cardinality({t} \cup {u}) <= Cardinality(C)
    BY <1>1, <1>4, FS_Subset
<1> QED
    BY <1>1, <1>3, <1>5, <1>6

\* While a thread that does not fill the work tree moves, what is there stays.
LEMMA InWorkStays ==
    ASSUME TypeOK, NEW t \in Threads,
           step' = [step EXCEPT ![t] = step'[t]], files' = [files EXCEPT ![t] = files'[t]],
           step[t] # "fill", step'[t] # "fill", work' = work,
           NEW p \in Pages
    PROVE  InWork(p)' <=> InWork(p)
<1>1. \A u \in Threads : u # t => step'[u] = step[u] /\ files'[u] = files[u]
    BY DEF TypeOK
<1> QED
    BY <1>1 DEF InWork

LEMMA InWikiStays ==
    ASSUME TypeOK, NEW t \in Threads,
           step' = [step EXCEPT ![t] = step'[t]], files' = [files EXCEPT ![t] = files'[t]],
           step[t] \notin {"clear", "restore"},
           NEW p \in Pages, wiki.pages[p] # Absent => wiki'.pages[p] # Absent
    PROVE  InWiki(p) => InWiki(p)'
<1>1. \A u \in Threads : u # t => step'[u] = step[u] /\ files'[u] = files[u]
    BY DEF TypeOK
<1> QED
    BY <1>1 DEF InWiki

\* A step that begins and ends no copy, removes no page and makes no commit.
LEMMA QuietStep ==
    ASSUME TypeOK, PagesInv, NEW t \in Threads,
           step' = [step EXCEPT ![t] = step'[t]], files' = [files EXCEPT ![t] = files'[t]],
           step[t] \notin {"clear", "restore", "fill"}, step'[t] \notin Copying,
           work' = work, \A p \in Pages : wiki.pages[p] # Absent => wiki'.pages[p] # Absent,
           UNCHANGED <<base, own>>
    PROVE  PagesInv'
<1>1. Alone'
  <2>1. \A u \in Threads : step'[u] \in Copying => u # t /\ step[u] \in Copying
      BY DEF TypeOK
  <2> QED
      BY <2>1 DEF Alone, PagesInv
<1>2. \A p \in Pages : InWork(p)' <=> InWork(p)
    BY InWorkStays DEF Copying
<1>3. \A p \in Pages : InWiki(p) => InWiki(p)'
    BY InWikiStays
<1>4. \A p \in Pages : InCommit(p)' <=> InCommit(p)
    BY DEF InCommit, Cloned
<1>5. own' # NoCommit => PagesOf(base') \subseteq PagesOf(own')
    BY DEF PagesInv, PagesOf
<1> QED
    BY <1>1, <1>2, <1>3, <1>4, <1>5 DEF PagesInv, PagesOf

\* While one thread copies, but does not fill, the work tree has what it should have.
LEMMA InWorkIsThere ==
    ASSUME Alone, NEW t \in Threads, step[t] \in Copying, step[t] # "fill",
           NEW p \in Pages, InWork(p)
    PROVE  work.pages[p] # Absent
    BY DEF Alone, InWork, Copying

LEMMA PagesStep ==
    ASSUME TypeOK, TypeOK', CommitsInv, ~ risk => PagesInv, ~ risk', [Next]_vars
    PROVE  PagesInv'
<1> USE DEF Repository, Environment
<1>0. ASSUME Watch PROVE ~ risk /\ PagesInv /\ Alone'
  <2>1. ~ risk /\ ~ Overlap(step')
      BY <1>0 DEF Watch
  <2> QED
      BY <2>1, NoOverlapIsAlone DEF Alone
<1>1. CASE UNCHANGED vars
    BY <1>1 DEF vars, PagesInv, Alone, InCommit, InWork, InWiki, PagesOf, Cloned
<1>2. ASSUME NEW pull \in BOOLEAN, NEW push \in BOOLEAN, StartJob(pull, push)
      PROVE  PagesInv'
  <2>1. /\ Begin(Job, Asked(pull, push) \o <<"touch">>) /\ Job \in Threads
        /\ step[Job] = "idle"
        /\ UNCHANGED <<wiki, work, Repository, risk>>
      BY <1>2 DEF StartJob, Threads
  <2>2. /\ step' = [step EXCEPT ![Job] = step'[Job]]
        /\ files' = [files EXCEPT ![Job] = {}]
        /\ step'[Job] \in Resting
      BY <2>1, AskedType, BeginEffect
  <2>3. files' = [files EXCEPT ![Job] = files'[Job]]
      BY <2>1, <2>2 DEF TypeOK
  <2>4. step'[Job] \notin Copying
      BY <2>2 DEF Resting, Copying
  <2> QED
      BY <2>1, <2>2, <2>3, <2>4, QuietStep
<1>3. ASSUME NEW t \in Requests, NEW ops \in Seq(Ops), Ask(t, ops),
             \A p \in Pages : wiki.pages[p] # Absent => wiki'.pages[p] # Absent
      PROVE  PagesInv'
  <2>1. t \in Threads
      BY DEF Threads
  <2>2. /\ step[t] = "idle"
        /\ step' = [step EXCEPT ![t] = step'[t]]
        /\ files' = [files EXCEPT ![t] = {}]
        /\ step'[t] \in Resting
        /\ UNCHANGED <<work, Repository, risk>>
      BY <1>3, <2>1, AskEffect
  <2>3. files' = [files EXCEPT ![t] = files'[t]]
      BY <2>1, <2>2 DEF TypeOK
  <2>4. step'[t] \notin Copying
      BY <2>2 DEF Resting, Copying
  <2> QED
      BY <1>3, <2>1, <2>2, <2>3, <2>4, QuietStep
<1>4. ASSUME NEW t \in Requests, NEW pull \in BOOLEAN, NEW push \in BOOLEAN,
             VaultSync(t, pull, push)
      PROVE  PagesInv'
    BY <1>3, <1>4, AskedType DEF VaultSync
<1>5. ASSUME NEW t \in Requests, Lint(t)
      PROVE  PagesInv'
  <2>1. <<"touch">> \in Seq(Ops)
    <3>1. "touch" \in Ops
        BY DEF Ops
    <3> QED
        BY <3>1
  <2> QED
      BY <1>3, <1>5, <2>1 DEF Lint
<1>6. ASSUME NEW t \in Requests, NEW p \in Pages, NEW v \in Versions,
             SavePage(t, p, v) \/ SaveAnswer(t, p, v)
      PROVE  PagesInv'
  <2>1. <<"touch">> \in Seq(Ops) /\ <<>> \in Seq(Ops)
    <3>1. "touch" \in Ops
        BY DEF Ops
    <3> QED
        BY <3>1
  <2>2. wiki \in Contents /\ wiki' = [wiki EXCEPT !.pages[p] = v] /\ v # Absent
      BY <1>6, VaultAssumption DEF SavePage, SaveAnswer, TypeOK
  <2>3. \A q \in Pages : wiki.pages[q] # Absent => wiki'.pages[q] # Absent
      BY <2>2 DEF Contents
  <2> QED
      BY <1>3, <1>6, <2>1, <2>3 DEF SavePage, SaveAnswer
<1>7. ASSUME NEW t \in Threads, Fetch(t)
      PROVE  PagesInv'
  <2>1. step[t] = "fetch" /\ wiki' = wiki /\ own' = own
      BY <1>7 DEF Fetch
  <2>2. ~ risk /\ PagesInv /\ Alone'
      BY <1>0, <1>7 DEF Fetch
  <2>3. /\ step' = [step EXCEPT ![t] = step'[t]]
        /\ files' = [files EXCEPT ![t] = files'[t]]
        /\ step'[t] \in Resting \cup {"clear"}
    <3>1. CASE Done(t)
        BY <3>1, DoneEffect DEF TypeOK
    <3>2. CASE GoTo(t, "clear", {})
        BY <3>2, GoToEffect DEF Steps, TypeOK
    <3> QED
        BY <1>7, <3>1, <3>2 DEF Fetch
  <2>4. step'[t] # "fill" /\ step[t] # "fill" /\ step[t] \notin {"clear", "restore"}
      BY <2>1, <2>3 DEF Resting
  <2>5. \A u \in Threads : u # t => step'[u] = step[u] /\ files'[u] = files[u]
      BY <2>3 DEF TypeOK
  <2>6. \A p \in Pages : InWiki(p) => InWiki(p)'
      BY <2>1, <2>3, <2>4, InWikiStays
  <2>7. CASE Done(t) /\ work' = work /\ base' = base
    <3>1. Done(t) /\ work' = work /\ base' = base
        BY <2>7
    <3>2. step'[t] \notin Copying
        BY <3>1, DoneEffect DEF Resting, Copying
    <3> QED
        BY <2>1, <2>2, <2>3, <2>4, <3>1, <3>2, QuietStep
  <2>8. ASSUME CanPull, NEW index \in PulledIndex, work' = Pulled(index),
               base' = IF Cloned /\ ~ behind THEN base ELSE remote,
               GoTo(t, "clear", {}) \/ PagesOf(work') = {}
        PROVE  PagesInv'
    <3>1. work' = Pulled(index) /\ (step'[t] = "clear" \/ PagesOf(work') = {})
        BY <2>8 DEF GoTo, TypeOK
    <3>2. base' = remote /\ base' # NoCommit
      <4>1. base' = IF Cloned /\ ~ behind THEN base ELSE remote
          BY <2>8
      <4> QED
          BY <4>1, VaultAssumption DEF CommitsInv, TypeOK
    <3>3. own # NoCommit => Cloned /\ ~ behind
        BY <2>8 DEF CanPull, CommitsInv
    <3>4. ASSUME NEW p \in Pages, InCommit(p), ~ behind, Cloned PROVE InWork(p)'
      <4>1. work' = work
          BY <3>1, <3>4 DEF Pulled
      <4>2. InWork(p)
          BY <2>2, <3>4 DEF PagesInv
      <4> QED
          BY <2>3, <2>4, <4>1, <4>2, InWorkStays
    <3>5. ASSUME NEW p \in Pages, remote.pages[p] # Absent PROVE InWork(p)'
      <4>1. CASE ~ Cloned
          BY <3>1, <3>5, <4>1 DEF Pulled, InWork
      <4>2. CASE Cloned /\ ~ behind
        <5>1. InCommit(p)
            BY <3>5, <4>2 DEF InCommit, CommitsInv
        <5> QED
            BY <3>4, <4>2, <5>1
      <4>3. CASE Cloned /\ behind
        <5>1. work'.pages[p] = IF remote.pages[p] # base.pages[p] THEN remote.pages[p]
                               ELSE work.pages[p]
            BY <3>1, <4>3 DEF Pulled
        <5>2. CASE remote.pages[p] # base.pages[p]
            BY <3>5, <5>1, <5>2 DEF InWork
        <5>3. CASE remote.pages[p] = base.pages[p]
          <6>1. InWork(p)
              BY <2>2, <3>5, <4>3, <5>3 DEF PagesInv, InCommit
          <6> QED
              BY <2>4, <2>5, <5>1, <5>3, <6>1 DEF InWork
        <5> QED
            BY <5>2, <5>3
      <4> QED
          BY <4>1, <4>2, <4>3
    <3>6. ASSUME NEW p \in Pages, InCommit(p)' PROVE InWork(p)'
      <4>1. CASE base'.pages[p] # Absent
          BY <3>2, <3>5, <4>1
      <4>2. CASE own' # NoCommit /\ own'.pages[p] # Absent
          BY <2>1, <3>3, <3>4, <4>2 DEF InCommit
      <4> QED
          BY <3>6, <4>1, <4>2 DEF InCommit
    <3>7. ASSUME NEW p \in Pages, InWork(p)' PROVE InWiki(p)'
      <4>1. CASE step'[t] = "clear"
          BY <4>1 DEF InWiki
      <4>2. CASE PagesOf(work') = {}
        <5>1. work'.pages[p] = Absent
            BY <4>2 DEF PagesOf
        <5>2. InWork(p)
            BY <2>4, <2>5, <3>7, <5>1 DEF InWork
        <5> QED
            BY <2>2, <2>6, <5>2 DEF PagesInv
      <4> QED
          BY <3>1, <4>1, <4>2
    <3>8. own' # NoCommit => PagesOf(base') \subseteq PagesOf(own')
        BY <2>1, <2>2, <3>2, <3>3 DEF CommitsInv, PagesInv, PagesOf
    <3> QED
        BY <2>2, <3>6, <3>7, <3>8 DEF PagesInv
  <2> QED
      BY <1>7, <2>7, <2>8 DEF Fetch
<1>8. ASSUME NEW t \in Threads, Clear(t)
      PROVE  PagesInv'
  <2>1. ~ risk /\ PagesInv /\ Alone'
      BY <1>0, <1>8 DEF Clear
  <2>2. PagesOf(work) \in SUBSET Pages /\ "restore" \in Steps
      BY DEF PagesOf, Steps
  <2>3. /\ step[t] = "clear"
        /\ step' = [step EXCEPT ![t] = "restore"]
        /\ files' = [files EXCEPT ![t] = PagesOf(work)]
        /\ UNCHANGED <<work, base, own>>
      BY <1>8, <2>2, GoToEffect DEF Clear
  <2>4. step'[t] = "restore" /\ files'[t] = PagesOf(work)
      BY <2>3 DEF TypeOK
  <2>5. \A p \in Pages : InWork(p)' <=> InWork(p)
      BY <2>3, <2>4, InWorkStays
  <2>6. ASSUME NEW p \in Pages, InWork(p) PROVE InWiki(p)'
    <3>1. work.pages[p] # Absent
        BY <2>1, <2>3, <2>6, InWorkIsThere DEF PagesInv, Copying
    <3>2. p \in files'[t]
        BY <2>4, <3>1 DEF PagesOf
    <3> QED
        BY <2>4, <3>2 DEF InWiki
  <2>7. \A p \in Pages : InCommit(p)' <=> InCommit(p)
      BY <2>3 DEF InCommit, Cloned
  <2> QED
      BY <2>1, <2>3, <2>5, <2>6, <2>7 DEF PagesInv, PagesOf
<1>9. ASSUME NEW t \in Threads, ClearFails(t)
      PROVE  PagesInv'
    BY <1>9, AbortEffect DEF ClearFails
<1>10. ASSUME NEW t \in Threads, Restore(t)
      PROVE  PagesInv'
  <2>1. step[t] = "restore" /\ UNCHANGED <<work, base, own>>
      BY <1>10 DEF Restore
  <2>2. ASSUME step' = [step EXCEPT ![t] = step'[t]], files' = [files EXCEPT ![t] = files'[t]],
               step'[t] # "fill", Watch,
               \A p \in Pages : InWiki(p) => InWiki(p)'
        PROVE  PagesInv'
    <3>1. PagesInv /\ Alone'
        BY <1>0, <2>2
    <3>2. \A p \in Pages : InWork(p)' <=> InWork(p)
        BY <2>1, <2>2, InWorkStays
    <3>3. \A p \in Pages : InCommit(p)' <=> InCommit(p)
        BY <2>1 DEF InCommit, Cloned
    <3> QED
        BY <2>1, <2>2, <3>1, <3>2, <3>3 DEF PagesInv, PagesOf
  <2>3. CASE files[t] = {}
    <3>1. Done(t) /\ Watch /\ wiki' = [wiki EXCEPT !.index = work.index]
        BY <1>10, <2>3 DEF Restore
    <3>2. wiki'.pages = wiki.pages
        BY <3>1 DEF TypeOK, Contents
    <3>3. /\ step' = [step EXCEPT ![t] = step'[t]]
          /\ files' = [files EXCEPT ![t] = files'[t]]
          /\ step'[t] # "fill"
        BY <3>1, DoneEffect DEF TypeOK, Resting
    <3>4. \A u \in Threads : u # t => step'[u] = step[u] /\ files'[u] = files[u]
        BY <3>3 DEF TypeOK
    <3>5. \A p \in Pages : InWiki(p) => InWiki(p)'
        BY <2>1, <2>3, <3>2, <3>4 DEF InWiki
    <3> QED
        BY <2>2, <3>1, <3>3, <3>5
  <2>4. CASE files[t] # {}
    <3>1. PICK p \in files[t] :
             IF work.pages[p] = Absent THEN Abort(t) /\ UNCHANGED wiki
             ELSE /\ wiki' = [wiki EXCEPT !.pages[p] = work.pages[p]]
                  /\ GoTo(t, "restore", files[t] \ {p})
                  /\ Watch
        BY <1>10, <2>4 DEF Restore
    <3>2. work.pages[p] # Absent
        BY <3>1 DEF Abort
    <3>3. /\ wiki' = [wiki EXCEPT !.pages[p] = work.pages[p]]
          /\ GoTo(t, "restore", files[t] \ {p})
          /\ Watch
        BY <3>1, <3>2
    <3>4. p \in Pages /\ files[t] \ {p} \in SUBSET Pages /\ "restore" \in Steps
        BY DEF TypeOK, Steps
    <3>5. /\ step' = [step EXCEPT ![t] = "restore"]
          /\ files' = [files EXCEPT ![t] = files[t] \ {p}]
        BY <3>3, <3>4, GoToEffect
    <3>6. step'[t] = "restore" /\ files'[t] = files[t] \ {p}
        BY <3>5 DEF TypeOK
    <3>7. \A u \in Threads : u # t => step'[u] = step[u] /\ files'[u] = files[u]
        BY <3>5 DEF TypeOK
    <3>8. wiki'.pages[p] # Absent /\ \A q \in Pages : q # p => wiki'.pages[q] = wiki.pages[q]
        BY <3>2, <3>3, <3>4 DEF TypeOK, Contents
    <3>9. \A q \in Pages : InWiki(q) => InWiki(q)'
        BY <2>1, <3>6, <3>7, <3>8 DEF InWiki
    <3> QED
        BY <2>2, <3>3, <3>5, <3>6, <3>9
  <2> QED
      BY <2>3, <2>4
<1>11. ASSUME NEW t \in Threads, EmptyWork(t)
      PROVE  PagesInv'
  <2>1. /\ step[t] = "empty"
        /\ wiki' = wiki /\ own' = own
        /\ ~ risk /\ PagesInv /\ Alone' /\ base' = base
    <3>1. ~ risk /\ ~ Overlap(step') /\ base' = base
        BY <1>11 DEF EmptyWork
    <3> QED
        BY <1>11, <3>1, NoOverlapIsAlone DEF EmptyWork, Alone
  <2>2. CASE ~ Cloned /\ ~ online
    <3>1. Done(t) /\ work' = work
        BY <1>11, <2>2 DEF EmptyWork
    <3>2. /\ step' = [step EXCEPT ![t] = step'[t]]
          /\ files' = [files EXCEPT ![t] = files'[t]]
          /\ step'[t] \notin Copying
        BY <3>1, DoneEffect DEF TypeOK, Resting, Copying
    <3> QED
        BY <2>1, <3>1, <3>2, QuietStep
  <2>3. CASE ~ (~ Cloned /\ ~ online)
    <3>1. /\ base' = IF Cloned THEN base ELSE remote
          /\ \/ work' = Empty /\ GoTo(t, "fill", PagesOf(wiki))
             \/ work' = (IF Cloned THEN work ELSE remote) /\ GoTo(t, "commit", {})
        BY <1>11, <2>3 DEF EmptyWork
    <3>2. Cloned
        BY <2>1, <3>1, VaultAssumption DEF Cloned, TypeOK
    <3>3. \A p \in Pages : InCommit(p)' <=> InCommit(p)
        BY <2>1 DEF InCommit, Cloned
    <3>4. PagesOf(wiki) \in SUBSET Pages /\ {} \in SUBSET Pages
          /\ "fill" \in Steps /\ "commit" \in Steps
        BY DEF PagesOf, Steps
    <3>5. CASE work' = Empty /\ GoTo(t, "fill", PagesOf(wiki))
      <4>1. /\ step' = [step EXCEPT ![t] = "fill"]
            /\ files' = [files EXCEPT ![t] = PagesOf(wiki)]
          BY <3>4, <3>5, GoToEffect
      <4>2. step'[t] = "fill" /\ files'[t] = PagesOf(wiki)
          BY <4>1 DEF TypeOK
      <4>3. \A u \in Threads : u # t => step'[u] = step[u]
          BY <4>1 DEF TypeOK
      <4>4. \A u \in Threads : step'[u] \in Copying => u = t
          BY <2>1, <4>2 DEF Alone, Copying
      <4>5. ASSUME NEW p \in Pages, InWork(p) PROVE InWork(p)'
        <5>1. InWiki(p)
            BY <2>1, <4>5 DEF PagesInv
        <5>2. wiki.pages[p] # Absent
            BY <2>1, <4>3, <4>4, <5>1 DEF InWiki, Copying
        <5>3. p \in files'[t]
            BY <4>2, <5>2 DEF PagesOf
        <5> QED
            BY <4>2, <5>3 DEF InWork
      <4>6. ASSUME NEW p \in Pages, InWork(p)' PROVE InWiki(p)'
        <5>1. p \in files'[t]
            BY <3>5, <4>4, <4>6, EmptyType DEF InWork, Copying
        <5> QED
            BY <2>1, <4>2, <5>1 DEF InWiki, PagesOf
      <4> QED
          BY <2>1, <3>3, <4>5, <4>6 DEF PagesInv, PagesOf
    <3>6. CASE work' = (IF Cloned THEN work ELSE remote) /\ GoTo(t, "commit", {})
      <4>1. /\ step' = [step EXCEPT ![t] = "commit"]
            /\ files' = [files EXCEPT ![t] = {}]
            /\ work' = work
          BY <3>2, <3>4, <3>6, GoToEffect
      <4>2. step'[t] = "commit" /\ files'[t] = {}
          BY <4>1 DEF TypeOK
      <4>3. \A p \in Pages : InWork(p)' <=> InWork(p)
          BY <2>1, <4>1, <4>2, InWorkStays
      <4>4. \A p \in Pages : InWiki(p) => InWiki(p)'
          BY <2>1, <4>1, <4>2, InWikiStays
      <4> QED
          BY <2>1, <3>3, <4>3, <4>4 DEF PagesInv, PagesOf
    <3> QED
        BY <3>1, <3>5, <3>6
  <2> QED
      BY <2>2, <2>3
<1>12. ASSUME NEW t \in Threads, Fill(t)
      PROVE  PagesInv'
  <2>1. step[t] = "fill" /\ UNCHANGED <<wiki, base, own>>
      BY <1>12 DEF Fill
  <2>2. ASSUME step' = [step EXCEPT ![t] = step'[t]], files' = [files EXCEPT ![t] = files'[t]],
               Watch,
               \A p \in Pages : InWork(p)' <=> InWork(p)
        PROVE  PagesInv'
    <3>1. PagesInv /\ Alone'
        BY <1>0, <2>2
    <3>2. \A p \in Pages : InWiki(p) => InWiki(p)'
        BY <2>1, <2>2, InWikiStays
    <3>3. \A p \in Pages : InCommit(p)' <=> InCommit(p)
        BY <2>1 DEF InCommit, Cloned
    <3> QED
        BY <2>1, <2>2, <3>1, <3>2, <3>3 DEF PagesInv, PagesOf
  <2>3. CASE files[t] = {}
    <3>1. GoTo(t, "commit", {}) /\ Watch /\ work' = [work EXCEPT !.index = wiki.index]
        BY <1>12, <2>3 DEF Fill
    <3>2. work'.pages = work.pages
        BY <3>1 DEF TypeOK, Contents
    <3>3. {} \in SUBSET Pages /\ "commit" \in Steps
        BY DEF Steps
    <3>4. /\ step' = [step EXCEPT ![t] = "commit"]
          /\ files' = [files EXCEPT ![t] = {}]
        BY <3>1, <3>3, GoToEffect
    <3>5. step'[t] = "commit" /\ files'[t] = {}
        BY <3>4 DEF TypeOK
    <3>6. \A u \in Threads : u # t => step'[u] = step[u] /\ files'[u] = files[u]
        BY <3>4 DEF TypeOK
    <3>7. \A p \in Pages : InWork(p)' <=> InWork(p)
        BY <2>3, <3>2, <3>5, <3>6 DEF InWork
    <3> QED
        BY <2>2, <3>1, <3>4, <3>5, <3>7
  <2>4. CASE files[t] # {}
    <3>1. PICK p \in files[t] :
             IF wiki.pages[p] = Absent THEN Abort(t) /\ UNCHANGED work
             ELSE /\ work' = [work EXCEPT !.pages[p] = wiki.pages[p]]
                  /\ GoTo(t, "fill", files[t] \ {p})
                  /\ Watch
        BY <1>12, <2>4 DEF Fill
    <3>2. wiki.pages[p] # Absent
        BY <3>1 DEF Abort
    <3>3. /\ work' = [work EXCEPT !.pages[p] = wiki.pages[p]]
          /\ GoTo(t, "fill", files[t] \ {p})
          /\ Watch
        BY <3>1, <3>2
    <3>4. p \in Pages /\ files[t] \ {p} \in SUBSET Pages /\ "fill" \in Steps
        BY DEF TypeOK, Steps
    <3>5. /\ step' = [step EXCEPT ![t] = "fill"]
          /\ files' = [files EXCEPT ![t] = files[t] \ {p}]
        BY <3>3, <3>4, GoToEffect
    <3>6. step'[t] = "fill" /\ files'[t] = files[t] \ {p}
        BY <3>5 DEF TypeOK
    <3>7. \A u \in Threads : u # t => step'[u] = step[u] /\ files'[u] = files[u]
        BY <3>5 DEF TypeOK
    <3>8. work'.pages[p] # Absent /\ \A q \in Pages : q # p => work'.pages[q] = work.pages[q]
        BY <3>2, <3>3, <3>4 DEF TypeOK, Contents
    <3>9. \A q \in Pages : InWork(q)' <=> InWork(q)
        BY <2>1, <3>6, <3>7, <3>8 DEF InWork
    <3> QED
        BY <2>2, <3>3, <3>5, <3>6, <3>9
  <2> QED
      BY <2>3, <2>4
<1>13. ASSUME NEW t \in Threads, Commit(t)
      PROVE  PagesInv'
  <2>1. step[t] = "commit" /\ UNCHANGED <<wiki, work, base>>
      BY <1>13 DEF Commit
  <2>2. ~ risk /\ PagesInv /\ Alone'
      BY <1>0, <1>13 DEF Commit
  <2>3. CASE Done(t) /\ own' = own
    <3>1. /\ step' = [step EXCEPT ![t] = step'[t]]
          /\ files' = [files EXCEPT ![t] = files'[t]]
          /\ step'[t] \notin Copying
        BY <2>3, DoneEffect DEF TypeOK, Resting, Copying
    <3> QED
        BY <2>1, <2>2, <2>3, <3>1, QuietStep
  <2>4. CASE GoTo(t, "upload", {}) /\ own' = work
    <3>1. {} \in SUBSET Pages /\ "upload" \in Steps
        BY DEF Steps
    <3>2. /\ step' = [step EXCEPT ![t] = "upload"]
          /\ files' = [files EXCEPT ![t] = {}]
        BY <2>4, <3>1, GoToEffect
    <3>3. step'[t] = "upload" /\ files'[t] = {}
        BY <3>2 DEF TypeOK
    <3>4. \A p \in Pages : InWork(p)' <=> InWork(p)
        BY <2>1, <3>2, <3>3, InWorkStays
    <3>5. \A p \in Pages : InWiki(p) => InWiki(p)'
        BY <2>1, <3>2, <3>3, InWikiStays
    <3>6. Cloned
        BY <2>1 DEF CommitsInv
    <3>7. ASSUME NEW p \in Pages, base.pages[p] # Absent PROVE work.pages[p] # Absent
      <4>1. InWork(p)
          BY <2>2, <3>6, <3>7 DEF PagesInv, InCommit
      <4> QED
          BY <2>1, <2>2, <4>1, InWorkIsThere DEF PagesInv, Copying
    <3>8. ASSUME NEW p \in Pages, InCommit(p)' PROVE InWork(p)
        BY <2>1, <2>4, <3>7, <3>8 DEF InCommit, InWork
    <3> QED
        BY <2>1, <2>2, <2>4, <3>4, <3>5, <3>7, <3>8 DEF PagesInv, PagesOf
  <2> QED
      BY <1>13, <2>3, <2>4 DEF Commit
<1>14. ASSUME NEW t \in Threads, Upload(t)
      PROVE  PagesInv'
  <2>1. step[t] = "upload" /\ Done(t) /\ UNCHANGED <<wiki, work>>
      BY <1>14 DEF Upload
  <2>2. ~ risk /\ PagesInv /\ Alone'
      BY <1>0, <1>14 DEF Upload
  <2>3. /\ step' = [step EXCEPT ![t] = step'[t]]
        /\ files' = [files EXCEPT ![t] = files'[t]]
        /\ step'[t] \notin Copying
      BY <2>1, DoneEffect DEF TypeOK, Resting, Copying
  <2>4. CASE UNCHANGED <<base, own>>
      BY <2>1, <2>2, <2>3, <2>4, QuietStep
  <2>5. CASE own # NoCommit /\ base' = own /\ own' = NoCommit
    <3>1. \A p \in Pages : InWork(p)' <=> InWork(p)
        BY <2>1, <2>3, InWorkStays DEF Copying
    <3>2. \A p \in Pages : InWiki(p) => InWiki(p)'
        BY <2>1, <2>3, InWikiStays
    <3>3. \A p \in Pages : InCommit(p)' => InCommit(p)
        BY <2>5 DEF InCommit, Cloned
    <3> QED
        BY <2>2, <2>5, <3>1, <3>2, <3>3 DEF PagesInv
  <2> QED
      BY <1>14, <2>4, <2>5 DEF Upload
<1>15. ASSUME NEW t \in Threads, Scan(t)
      PROVE  PagesInv'
  <2>1. PagesOf(wiki) \in SUBSET Pages /\ "write" \in Steps
      BY DEF PagesOf, Steps
  <2>2. /\ step[t] = "scan"
        /\ step' = [step EXCEPT ![t] = "write"]
        /\ files' = [files EXCEPT ![t] = PagesOf(wiki)]
        /\ UNCHANGED <<wiki, work, base, own, risk>>
      BY <1>15, <2>1, GoToEffect DEF Scan
  <2>3. step'[t] = "write" /\ files'[t] = PagesOf(wiki)
      BY <2>2 DEF TypeOK
  <2>4. step'[t] \notin Copying
      BY <2>3 DEF Copying
  <2> QED
      BY <2>2, <2>3, <2>4, QuietStep
<1>16. ASSUME NEW t \in Threads, WriteIndex(t)
      PROVE  PagesInv'
  <2>1. /\ step[t] = "write"
        /\ step' = [step EXCEPT ![t] = step'[t]]
        /\ files' = [files EXCEPT ![t] = {}]
        /\ step'[t] \in Resting
        /\ UNCHANGED <<work, base, own, risk>>
      BY <1>16, DoneEffect DEF WriteIndex
  <2>2. files'[t] = {}
      BY <2>1 DEF TypeOK
  <2>3. \A p \in Pages : wiki.pages[p] # Absent => wiki'.pages[p] # Absent
      BY <1>16 DEF WriteIndex, TypeOK, Contents
  <2>4. step'[t] \notin Copying
      BY <2>1 DEF Resting, Copying
  <2> QED
      BY <2>1, <2>2, <2>3, <2>4, QuietStep
<1>17. CASE ForeignPush
    BY <1>17 DEF ForeignPush, PagesInv, Alone, InCommit, InWork, InWiki, PagesOf, Cloned
<1>18. CASE Outage \/ Recover
    BY <1>18 DEF Outage, Recover, PagesInv, Alone, InCommit, InWork, InWiki, PagesOf, Cloned
<1>19. CASE Crash
  <2>1. ~ risk /\ \A t \in Threads : step[t] \notin Copying
      BY <1>19 DEF Crash
  <2>2. \A t \in Threads : step'[t] = "idle"
      BY <1>19 DEF Crash
  <2>3. UNCHANGED <<wiki, work, base, own>>
      BY <1>19 DEF Crash
  <2>4. Alone'
      BY <2>2 DEF Alone, Copying
  <2>5. \A p \in Pages : InWork(p)' <=> InWork(p)
      BY <2>1, <2>2, <2>3 DEF InWork, Copying
  <2>6. \A p \in Pages : InWiki(p) => InWiki(p)'
      BY <2>1, <2>3 DEF InWiki, Copying
  <2>7. \A p \in Pages : InCommit(p)' <=> InCommit(p)
      BY <2>3 DEF InCommit, Cloned
  <2> QED
      BY <2>1, <2>3, <2>4, <2>5, <2>6, <2>7 DEF PagesInv, PagesOf
<1>20. CASE JobFails
  <2>1. Job \in Threads /\ <<>> \in Seq(Ops)
      BY DEF Threads
  <2>2. /\ step[Job] \in {"fetch", "empty", "scan"}
        /\ UNCHANGED <<wiki, work, base, own, risk>>
        /\ Begin(Job, <<>>)
      BY <1>20 DEF JobFails
  <2>3. /\ step' = [step EXCEPT ![Job] = step'[Job]]
        /\ files' = [files EXCEPT ![Job] = {}]
        /\ step'[Job] \in Resting
      BY <2>1, <2>2, BeginEffect
  <2>4. files'[Job] = {} /\ step'[Job] \notin Copying
      BY <2>1, <2>3 DEF TypeOK, Resting, Copying
  <2> QED
      BY <2>1, <2>2, <2>3, <2>4, QuietStep
<1>21. ASSUME NEW t \in Threads, CommitFails(t)
      PROVE  PagesInv'
  <2>1. step[t] = "commit" /\ UNCHANGED <<wiki, work, base, own>>
      BY <1>21 DEF CommitFails
  <2>2. ~ risk /\ PagesInv
      BY <1>0, <1>21 DEF CommitFails
  <2>3. <<>> \in Seq(Ops)
      OBVIOUS
  <2>4. /\ step' = [step EXCEPT ![t] = step'[t]]
        /\ files' = [files EXCEPT ![t] = {}]
        /\ step'[t] \in Resting
      BY <1>21, <2>3, BeginEffect, DoneEffect DEF CommitFails
  <2>5. files'[t] = {} /\ step'[t] \notin Copying
      BY <2>4 DEF TypeOK, Resting, Copying
  <2> QED
      BY <2>1, <2>2, <2>4, <2>5, QuietStep
<1> QED
    BY <1>1, <1>2, <1>4, <1>5, <1>6, <1>7, <1>8, <1>9, <1>10, <1>11, <1>12, <1>13, <1>14,
       <1>15, <1>16, <1>17, <1>18, <1>19, <1>20, <1>21 DEF Next, Run

-----------------------------------------------------------------------------

\* The invariant holds at the start and after every step.
LEMMA Invariant == Spec => []IInv
<1>1. Init => IInv
  <2> SUFFICES ASSUME Init PROVE IInv
      OBVIOUS
  <2>1. TypeOK
    <3>1. step \in [Threads -> Steps] /\ files \in [Threads -> SUBSET Pages]
        BY DEF Init, Steps
    <3>2. todo \in [Threads -> Seq(Ops)]
      <4>1. <<>> \in Seq(Ops)
          OBVIOUS
      <4> QED
          BY <4>1 DEF Init
    <3>3. /\ wiki \in Contents /\ work \in Contents /\ base \in Contents \cup {NoCommit}
          /\ own \in Contents \cup {NoCommit} /\ remote \in Contents
        BY StartType, EmptyType DEF Init
    <3>4. behind \in BOOLEAN /\ dirty \in BOOLEAN /\ online \in BOOLEAN /\ risk \in BOOLEAN
        BY DEF Init
    <3>5. requests \in Nat /\ foreign \in Nat /\ faults \in Nat
        BY DEF Init
    <3> QED
        BY <3>1, <3>2, <3>3, <3>4, <3>5 DEF TypeOK
  <2>2. CommitsInv
      BY VaultAssumption, StartType DEF Init, CommitsInv, Cloned
  <2>3. PagesInv
    <3>1. \A t \in Threads : step[t] = "idle"
        BY DEF Init
    <3>2. Alone
        BY <3>1 DEF Alone, Copying
    <3>3. \A p \in Pages : InWork(p) => InWiki(p)
        BY <3>1, EmptyType DEF Init, InWork, InWiki
    <3>4. \A p \in Pages : InCommit(p) => InWork(p)
        BY <3>1 DEF Init, InCommit, InWork, Cloned
    <3> QED
        BY <3>2, <3>3, <3>4 DEF PagesInv, Init
  <2> QED
      BY <2>1, <2>2, <2>3 DEF IInv
<1>2. IInv /\ [Next]_vars => IInv'
    BY TypeStep, CommitsStep, PagesStep DEF IInv
<1> QED
    BY <1>1, <1>2, PTL DEF Spec

\* The variables of the vault keep their types.
THEOREM TypeCorrect == Spec => []TypeOK
<1>1. IInv => TypeOK
    BY DEF IInv
<1> QED
    BY <1>1, Invariant, PTL

\* Only another machine's push and the upload of this server change the vault.
LEMMA WhoChangesTheVault ==
    ASSUME [Next]_vars
    PROVE  remote' = remote \/ ForeignPush \/ \E t \in Threads : Upload(t)
<1> USE DEF Repository
<1>1. CASE UNCHANGED vars
    BY <1>1 DEF vars
<1>2. CASE \E pull, push \in BOOLEAN : StartJob(pull, push)
    BY <1>2 DEF StartJob
<1>3. CASE \E t \in Requests :
              \/ \E pull, push \in BOOLEAN : VaultSync(t, pull, push)
              \/ Lint(t)
              \/ \E p \in Pages, v \in Versions : SavePage(t, p, v) \/ SaveAnswer(t, p, v)
    BY <1>3 DEF VaultSync, Lint, SavePage, SaveAnswer, Ask
<1>4. ASSUME NEW t \in Threads, Run(t) PROVE remote' = remote \/ Upload(t)
    BY <1>4 DEF Run, Fetch, Clear, ClearFails, Restore, EmptyWork, Fill, Commit,
          CommitFails, Scan, WriteIndex
<1>5. CASE Outage \/ Recover \/ Crash \/ JobFails
    BY <1>5 DEF Outage, Recover, Crash, JobFails
<1> QED
    BY <1>1, <1>2, <1>3, <1>4, <1>5 DEF Next

\* No push of this server, and no other machine's, takes a page out of the vault unless
\* two vault operations here overlapped, one was cut short, or a server without a clone
\* began with a push: what push_vault commits has every page of the commit it follows.
THEOREM NoPageLeavesTheVault == Spec => VaultKeepsPages
<1>1. ASSUME IInv, IInv', [Next]_vars, ~ risk'
      PROVE  PagesOf(remote) \subseteq PagesOf(remote')
  <2>1. CASE remote' = remote
      BY <2>1
  <2>2. CASE ForeignPush
    <3>1. PICK p \in Pages, v \in Versions :
             LET new == [remote.pages EXCEPT ![p] = v]
             IN  \E index \in {remote.index, Listed({q \in Pages : new[q] # Absent})} :
                    remote' = [pages |-> new, index |-> index]
        BY <2>2 DEF ForeignPush
    <3>2. remote'.pages = [remote.pages EXCEPT ![p] = v] /\ v # Absent
        BY <3>1, VaultAssumption
    <3> QED
        BY <1>1, <3>2 DEF IInv, TypeOK, Contents, PagesOf
  <2>3. ASSUME NEW t \in Threads, Upload(t), remote' # remote
        PROVE  PagesOf(remote) \subseteq PagesOf(remote')
    <3>1. remote' = own /\ own # NoCommit /\ ~ behind
        BY <2>3 DEF Upload, Repository
    <3>2. ~ risk
        BY <1>1, <2>3 DEF Upload, Watch
    <3>3. base = remote
        BY <1>1, <3>1 DEF IInv, CommitsInv
    <3> QED
        BY <1>1, <3>1, <3>2, <3>3 DEF IInv, PagesInv
  <2> QED
      BY <1>1, <2>1, <2>2, <2>3, WhoChangesTheVault
<1>2. IInv /\ IInv' /\ [Next]_vars => [~ risk' => PagesOf(remote) \subseteq PagesOf(remote')]_vars
    BY <1>1
<1> QED
    BY <1>2, Invariant, PTL DEF Spec, VaultKeepsPages
=============================================================================
