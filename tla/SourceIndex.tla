---------------------------- MODULE SourceIndex -----------------------------
(***************************************************************************)
(* The index of the sources: the tables documents and documents_fts, and   *)
(* the four indexers that bring them in line with the files on disk:       *)
(*                                                                         *)
(*   sync     run_sync_job: skips a file by (mtime, size), then by sha1;   *)
(*            commits after each source                                    *)
(*   rebuild  run_rebuild_job: clears a source, re-reads every file of it; *)
(*            commits after each source                                    *)
(*   ingest   POST /api/ingest: as sync, one commit at the end             *)
(*   reindex  POST /api/admin/reindex: as ingest, but goes on with the     *)
(*            next source when one raises                                  *)
(*                                                                         *)
(* sync and rebuild share one thread (SyncJobs); ingest and reindex look   *)
(* at no lock but SQLite's, so they run beside it.  Meanwhile users edit   *)
(* the files, a mount comes and goes, and a source is deleted.             *)
(*                                                                         *)
(* A stamp stands for the pair (mtime, size): every edit gives a file a    *)
(* stamp it never had.  A text stands for its sha1, and for what the file  *)
(* says in the encoding _detect_encoding finds in it; read in any other    *)
(* encoding it is Garbled.  The order in which sources and files are taken *)
(* is left open.  A SELECT that lists rows to delete is taken together     *)
(* with the first DELETE; the statements after it are steps of their own.  *)
(***************************************************************************)
EXTENDS Naturals

CONSTANTS
    Sources,     \* source ids
    Private,     \* the sources with an owner of their own
    Paths,       \* rel_paths
    Contents,    \* texts a file can hold
    Big,         \* the texts longer than max_index_file_bytes
    Foreign,     \* the texts saved in another encoding than the rest
    Garbled,     \* what decoding in the wrong encoding gives
    Job,         \* the thread of the running sync or rebuild
    Ingesters,   \* the threads serving ingest and reindex requests
    None,        \* NULL
    MaxEdits,    \* bound: changes on disk
    MaxFaults    \* bound: statements that raise, and crashes

ASSUME SourceIndexAssumption ==
    /\ Private \subseteq Sources
    /\ Big \subseteq Contents /\ Foreign \subseteq Contents
    /\ Garbled \notin Contents
    /\ Job \notin Ingesters
    /\ None \notin Sources \cup Paths \cup Contents \cup Ingesters \cup {Job, Garbled}
    /\ MaxEdits \in Nat /\ MaxFaults \in Nat

Threads == Ingesters \cup {Job}
Kinds(t) == IF t = Job THEN {"sync", "rebuild"} ELSE {"ingest", "reindex"}

VARIABLES
    disk,        \* the file at each path of each source
    roots,       \* the sources whose root directory exists
    configured,  \* the sources of sources.yaml and user_sources.yaml
    index,       \* the committed tables
    work,        \* the tables as the open write transaction sees them
    writer,      \* the thread whose write transaction is open
    enc,         \* the encoding the process remembers for each file, or None
    saved,       \* history: the encodings each file was ever saved in
    ix,          \* what each indexer is doing
    edits,       \* changes on disk so far: the last stamp given
    faults       \* raised statements and crashes so far

vars == <<disk, roots, configured, index, work, writer, enc, saved, ix, edits, faults>>

Texts == Contents \cup {None, Garbled}
Encodings == {"utf-8", "other"}
Owners == {"own", "shared", "none"}
File == [content : Texts, stamp : Nat]
Doc == [content : Texts, stamp : Nat, owner : Owners]
Entry == [content : Texts, owner : Owners]
Tables == [docs : [Sources -> [Paths -> Doc]], fts : [Sources -> [Paths -> Entry]]]

\* A pass has a source from "clear" on.  AtRow: between the two DELETEs of one
\* row.  AtFile: between the stat of a file and the last statement about it.
AtRow == {"cleared", "swept"}
AtFile == {"look", "detect", "read", "write", "unlist", "enlist"}
InSource == {"clear", "list", "files"} \cup AtRow \cup AtFile
Fields == [pc : {"idle", "source"} \cup InSource,
           kind : {"sync", "rebuild", "ingest", "reindex"},
           todo : SUBSET Sources, only : Paths \cup {None}, failed : BOOLEAN,
           src : Sources \cup {None}, left : SUBSET Paths, existing : SUBSET Paths,
           tooBig : SUBSET Paths, path : Paths \cup {None}, stamp : Nat,
           old : Doc, enc : Encodings \cup {None}, text : Texts]
Pass == {m \in Fields : /\ m.pc \in InSource => m.src \in Sources
                        /\ m.pc \in AtRow \cup AtFile => m.path \in Paths}

TypeOK ==
    /\ disk \in [Sources -> [Paths -> File]]
    /\ roots \subseteq Sources
    /\ configured \subseteq Sources
    /\ index \in Tables
    /\ work \in Tables
    /\ writer \in Threads \cup {None}
    /\ enc \in [Sources -> [Paths -> Encodings \cup {None}]]
    /\ saved \in [Sources -> [Paths -> SUBSET Encodings]]
    /\ ix \in [Threads -> Pass]
    /\ edits \in Nat
    /\ faults \in Nat

\* "No such file", "no such row" and "no such entry".
NoFile == [content |-> None, stamp |-> 0]
NoDoc == [content |-> None, stamp |-> 0, owner |-> "none"]
NoEntry == [content |-> None, owner |-> "none"]
Empty == [docs |-> [s \in Sources |-> [p \in Paths |-> NoDoc]],
          fts |-> [s \in Sources |-> [p \in Paths |-> NoEntry]]]

Idle == [pc |-> "idle", kind |-> "sync", todo |-> {}, only |-> None, failed |-> FALSE,
         src |-> None, left |-> {}, existing |-> {}, tooBig |-> {}, path |-> None,
         stamp |-> 0, old |-> NoDoc, enc |-> None, text |-> None]

NothingKnown == [s \in Sources |-> [p \in Paths |-> None]]

Init ==
    /\ disk = [s \in Sources |-> [p \in Paths |-> NoFile]]
    /\ roots = Sources
    /\ configured = Sources
    /\ index = Empty
    /\ work = Empty
    /\ writer = None
    /\ enc = NothingKnown
    /\ saved = [s \in Sources |-> [p \in Paths |-> {}]]
    /\ ix = [t \in Threads |-> Idle]
    /\ edits = 0
    /\ faults = 0

-----------------------------------------------------------------------------
(* The tables *)

\* What a statement of t reads: its own transaction, or the last commit.
View(t) == IF writer = t THEN work ELSE index

\* A write of t: opens its transaction, or waits for the one that is open.
Writes(t, tables) ==
    /\ writer \in {None, t}
    /\ writer' = t
    /\ work' = tables

NoWrite == UNCHANGED <<work, writer>>

Rows(w, s) == {p \in Paths : w.docs[s][p] # NoDoc}

\* The statements of upsert_document, remove_missing and clear_source_index.
\* An entry is found by the id of its row, which no other row ever gets
\* (AUTOINCREMENT): where a row is new, an entry that outlived another row of
\* the same file is none of its own.
RowWritten(w, s, p, d) ==
    [docs |-> [w.docs EXCEPT ![s][p] = d],
     fts |-> IF w.docs[s][p] = NoDoc THEN [w.fts EXCEPT ![s][p] = NoEntry] ELSE w.fts]

RowDeleted(w, s, p) == [w EXCEPT !.docs[s][p] = NoDoc]

EntryDeleted(w, s, p) == [w EXCEPT !.fts[s][p] = NoEntry]

EntryInserted(w, s, p, e) == [w EXCEPT !.fts[s][p] = e]

\* update_document_metadata: an UPDATE, which finds no row that is not there.
Restamped(w, s, p, stamp) ==
    IF w.docs[s][p] = NoDoc
      THEN w
      ELSE [docs |-> [w.docs EXCEPT ![s][p].stamp = stamp], fts |-> w.fts]

\* clear_source_index as a whole: the rows of s and the entries of these rows.
Cleared(w, s) ==
    [docs |-> [w.docs EXCEPT ![s] = [p \in Paths |-> NoDoc]],
     fts |-> [w.fts EXCEPT ![s] = [p \in Paths |-> IF p \in Rows(w, s) THEN NoEntry
                                                                      ELSE @[p]]]]

\* Mutant of WrittenOwner: the id of the source instead of its owner.
WrittenId(kind, s) == IF kind # "sync" /\ s \in Private THEN s ELSE "shared"

\* source_owner of a new row: sync passes none, the column gets "__shared__".
WrittenOwner(kind, s) == IF kind # "sync" /\ s \in Private THEN "own" ELSE "shared"

-----------------------------------------------------------------------------
(* One pass of an indexer *)

Go(t, p) == ix' = [ix EXCEPT ![t] = p]
DiskSame == UNCHANGED <<disk, roots, saved, edits>>
Others == UNCHANGED <<configured, faults>>

Start(t, kind, chosen, only) ==
    /\ ix[t].pc = "idle"
    /\ kind \in Kinds(t)
    /\ only # None => kind = "ingest"
    /\ Go(t, [Idle EXCEPT !.pc = "source", !.kind = kind, !.todo = chosen, !.only = only])
    /\ NoWrite /\ DiskSame /\ Others /\ UNCHANGED <<index, enc>>

\* root.exists() is false: the source is passed over and keeps its rows.
SkipMissingRoot(t, s) ==
    /\ ix[t].pc = "source" /\ s \in ix[t].todo
    /\ s \notin roots
    /\ Go(t, [ix[t] EXCEPT !.todo = @ \ {s}])
    /\ NoWrite /\ DiskSame /\ Others /\ UNCHANGED <<index, enc>>

\* root.exists() is true; a rebuild clears the rows before it lists the files.
OpenSource(t, s) ==
    /\ ix[t].pc = "source" /\ s \in ix[t].todo
    /\ s \in roots
    /\ LET clears == ix[t].kind = "rebuild" /\ Rows(View(t), s) # {}
       IN  Go(t, [ix[t] EXCEPT !.pc = IF clears THEN "clear" ELSE "list",
                               !.src = s, !.todo = @ \ {s}])
    /\ NoWrite /\ DiskSame /\ Others /\ UNCHANGED <<index, enc>>

\* clear_source_index deletes a row's entry first ...
ClearEntry(t, p) ==
    /\ ix[t].pc = "clear" /\ p \in Rows(View(t), ix[t].src)
    /\ Writes(t, EntryDeleted(View(t), ix[t].src, p))
    /\ Go(t, [ix[t] EXCEPT !.pc = "cleared", !.path = p])
    /\ DiskSame /\ Others /\ UNCHANGED <<index, enc>>

\* ... and then the row.
ClearRow(t) ==
    /\ ix[t].pc = "cleared"
    /\ Writes(t, RowDeleted(View(t), ix[t].src, ix[t].path))
    /\ Go(t, [ix[t] EXCEPT !.pc = "clear", !.path = None])
    /\ DiskSame /\ Others /\ UNCHANGED <<index, enc>>

Present(s, p) == s \in roots /\ disk[s][p] # NoFile

\* collect_files, and the rel_path an ingest may ask for.  os.walk finds
\* nothing under a root that is gone by now, and says nothing.
ListFiles(t) ==
    /\ \/ ix[t].pc = "list"
       \/ ix[t].pc = "clear" /\ Rows(View(t), ix[t].src) = {}
    /\ LET files == {p \in Paths : /\ Present(ix[t].src, p)
                                   /\ ix[t].only \in {None, p}}
       IN  Go(t, [ix[t] EXCEPT !.pc = "files", !.left = files, !.existing = files])
    /\ NoWrite /\ DiskSame /\ Others /\ UNCHANGED <<index, enc>>

\* On to the next file.
NextFile(t, p) ==
    Go(t, [ix[t] EXCEPT !.pc = "files", !.left = @ \ {p}, !.path = None, !.stamp = 0,
                        !.old = NoDoc, !.enc = None, !.text = None])

\* f.stat(): every indexer but sync passes over a file that is too big.
StatFile(t, p) ==
    /\ ix[t].pc = "files" /\ p \in ix[t].left
    /\ Present(ix[t].src, p)
    /\ LET f == disk[ix[t].src][p]
       IN  IF ix[t].kind # "sync" /\ f.content \in Big
             THEN Go(t, [ix[t] EXCEPT !.left = @ \ {p}, !.tooBig = @ \cup {p}])
             ELSE Go(t, [ix[t] EXCEPT !.pc = IF ix[t].kind = "rebuild" THEN "detect" ELSE "look",
                                      !.path = p, !.stamp = f.stamp, !.old = NoDoc])
    /\ NoWrite /\ DiskSame /\ Others /\ UNCHANGED <<index, enc>>

\* The row's mtime and size: unchanged means the file is not read.
LookUp(t) ==
    /\ ix[t].pc = "look"
    /\ LET old == View(t).docs[ix[t].src][ix[t].path]
       IN  IF old # NoDoc /\ old.stamp = ix[t].stamp
             THEN NextFile(t, ix[t].path)
             ELSE Go(t, [ix[t] EXCEPT !.pc = "detect", !.old = old])
    /\ NoWrite /\ DiskSame /\ Others /\ UNCHANGED <<index, enc>>

Encoding(c) == IF c \in Foreign THEN "other" ELSE "utf-8"

\* _detect_encoding: the encoding remembered for the path, whatever the file
\* was saved in since; only a path that is not remembered is read for it.
Detect(t) ==
    /\ ix[t].pc = "detect"
    /\ LET m == ix[t]
           e == enc[m.src][m.path]
       IN  IF e # None
             THEN Go(t, [m EXCEPT !.pc = "read", !.enc = e]) /\ UNCHANGED enc
             ELSE /\ Present(m.src, m.path)
                  /\ LET found == Encoding(disk[m.src][m.path].content)
                     IN  /\ Go(t, [m EXCEPT !.pc = "read", !.enc = found])
                         /\ enc' = [enc EXCEPT ![m.src][m.path] = found]
    /\ NoWrite /\ DiskSame /\ Others /\ UNCHANGED index

Decoded(c, e) == IF e = Encoding(c) THEN c ELSE Garbled

\* read_text_safely: read_bytes().decode(enc, errors="replace").
ReadFile(t) ==
    /\ ix[t].pc = "read"
    /\ Present(ix[t].src, ix[t].path)
    /\ Go(t, [ix[t] EXCEPT !.pc = "write",
                           !.text = Decoded(disk[ix[t].src][ix[t].path].content, ix[t].enc)])
    /\ NoWrite /\ DiskSame /\ Others /\ UNCHANGED <<index, enc>>

\* Mutant of WriteFile: the stamp is taken after the text was read.
WriteFileStampedLate(t) ==
    /\ ix[t].pc = "write"
    /\ LET m == ix[t]
           now == disk[m.src][m.path].stamp
       IN  IF m.old # NoDoc /\ m.old.content = m.text
             THEN /\ Writes(t, Restamped(View(t), m.src, m.path, now))
                  /\ NextFile(t, m.path)
             ELSE /\ Writes(t, RowWritten(View(t), m.src, m.path,
                                          [content |-> m.text, stamp |-> now,
                                           owner |-> WrittenOwner(m.kind, m.src)]))
                  /\ Go(t, [m EXCEPT !.pc = "unlist"])
    /\ DiskSame /\ Others /\ UNCHANGED <<index, enc>>

\* The text the row has: only mtime and size are updated.  Another text:
\* upsert_document, whose first statement writes the row.
WriteFile(t) ==
    /\ ix[t].pc = "write"
    /\ LET m == ix[t]
       IN  IF m.old # NoDoc /\ m.old.content = m.text
             THEN /\ Writes(t, Restamped(View(t), m.src, m.path, m.stamp))
                  /\ NextFile(t, m.path)
             ELSE /\ Writes(t, RowWritten(View(t), m.src, m.path,
                                          [content |-> m.text, stamp |-> m.stamp,
                                           owner |-> WrittenOwner(m.kind, m.src)]))
                  /\ Go(t, [m EXCEPT !.pc = "unlist"])
    /\ DiskSame /\ Others /\ UNCHANGED <<index, enc>>

\* The other two statements of upsert_document: the entry of the row's id is
\* deleted ...
DeleteEntry(t) ==
    /\ ix[t].pc = "unlist"
    /\ Writes(t, EntryDeleted(View(t), ix[t].src, ix[t].path))
    /\ Go(t, [ix[t] EXCEPT !.pc = "enlist"])
    /\ DiskSame /\ Others /\ UNCHANGED <<index, enc>>

\* Mutant of InsertEntry: a rebuild leaves the entries to the next sync.
InsertEntryLater(t) ==
    /\ ix[t].pc = "enlist"
    /\ Writes(t, IF ix[t].kind = "rebuild"
                   THEN View(t)
                   ELSE EntryInserted(View(t), ix[t].src, ix[t].path,
                                      [content |-> ix[t].text,
                                       owner |-> WrittenOwner(ix[t].kind, ix[t].src)]))
    /\ NextFile(t, ix[t].path)
    /\ DiskSame /\ Others /\ UNCHANGED <<index, enc>>

\* ... and inserted again.
InsertEntry(t) ==
    /\ ix[t].pc = "enlist"
    /\ Writes(t, EntryInserted(View(t), ix[t].src, ix[t].path,
                               [content |-> ix[t].text,
                                owner |-> WrittenOwner(ix[t].kind, ix[t].src)]))
    /\ NextFile(t, ix[t].path)
    /\ DiskSame /\ Others /\ UNCHANGED <<index, enc>>

\* Mutant of Missing: remove_missing is forgotten.
MissingIgnored(t) == {}

\* remove_missing, skipped when the ingest was for one rel_path.
Missing(t) ==
    IF ix[t].only = None THEN Rows(View(t), ix[t].src) \ ix[t].existing ELSE {}

\* remove_missing deletes a row first, and then its entry.
SweepRow(t, p) ==
    /\ ix[t].pc = "files" /\ ix[t].left = {}
    /\ p \in Missing(t)
    /\ Writes(t, RowDeleted(View(t), ix[t].src, p))
    /\ Go(t, [ix[t] EXCEPT !.pc = "swept", !.path = p])
    /\ DiskSame /\ Others /\ UNCHANGED <<index, enc>>

SweepEntry(t) ==
    /\ ix[t].pc = "swept"
    /\ Writes(t, EntryDeleted(View(t), ix[t].src, ix[t].path))
    /\ Go(t, [ix[t] EXCEPT !.pc = "files", !.path = None])
    /\ DiskSame /\ Others /\ UNCHANGED <<index, enc>>

\* conn.commit(), which ends the open transaction of t, if it has one.
Commits(t) ==
    IF writer = t THEN index' = work /\ writer' = None /\ UNCHANGED work
                  ELSE NoWrite /\ UNCHANGED index

\* Every file was read and every missing one swept: sync and rebuild commit,
\* ingest and reindex go on.
LeaveSource(t) ==
    /\ ix[t].pc = "files" /\ ix[t].left = {} /\ Missing(t) = {}
    /\ IF t = Job THEN Commits(t) ELSE NoWrite /\ UNCHANGED index
    /\ Go(t, [ix[t] EXCEPT !.pc = "source", !.src = None, !.existing = {},
                           !.tooBig = {}])
    /\ DiskSame /\ Others /\ UNCHANGED enc

\* No source is left: an ingest or reindex commits what it wrote.
Finish(t) ==
    /\ ix[t].pc = "source" /\ ix[t].todo = {}
    /\ Commits(t)
    /\ Go(t, Idle)
    /\ DiskSame /\ Others /\ UNCHANGED enc

\* Mutant of Abort: what was written before the exception is committed.
AbortCommits(t) ==
    /\ Go(t, Idle)
    /\ Commits(t)
    /\ DiskSame /\ UNCHANGED <<configured, enc>>

\* An exception inside the pass.  conn.rollback() or conn.close() undoes what
\* was not committed and the pass is over; reindex catches it per source, keeps the
\* transaction as the exception left it, and commits it at its end.
Abort(t) ==
    /\ IF ix[t].kind = "reindex" /\ ix[t].pc # "source"
         THEN /\ Go(t, [Idle EXCEPT !.pc = "source", !.kind = "reindex",
                                    !.todo = ix[t].todo, !.failed = TRUE])
              /\ NoWrite
         ELSE /\ Go(t, Idle)
              /\ IF writer = t THEN work' = index /\ writer' = None ELSE NoWrite
    /\ DiskSame /\ UNCHANGED <<configured, index, enc>>

\* stat() or read_bytes() finds the listed file gone.
FileVanished(t) ==
    /\ \/ ix[t].pc = "files" /\ \E p \in ix[t].left : ~Present(ix[t].src, p)
       \/ ix[t].pc = "read" /\ ~Present(ix[t].src, ix[t].path)
       \/ /\ ix[t].pc = "detect" /\ enc[ix[t].src][ix[t].path] = None
          /\ ~Present(ix[t].src, ix[t].path)
    /\ Abort(t)
    /\ UNCHANGED faults

\* Any statement or file operation raises; busy_timeout is one way.
StepRaises(t) ==
    /\ faults < MaxFaults
    /\ faults' = faults + 1
    /\ ix[t].pc # "idle"
    /\ Abort(t)

-----------------------------------------------------------------------------
(* Around the indexers *)

\* Users, git pull and the web fetcher write a file ...
EditFile(s, p, c) ==
    /\ edits < MaxEdits
    /\ s \in roots
    /\ edits' = edits + 1
    /\ disk' = [disk EXCEPT ![s][p] = [content |-> c, stamp |-> edits + 1]]
    /\ saved' = [saved EXCEPT ![s][p] = @ \cup {Encoding(c)}]
    /\ UNCHANGED <<roots, configured, index, work, writer, enc, ix, faults>>

\* ... or remove it.
RemoveFile(s, p) ==
    /\ edits < MaxEdits
    /\ Present(s, p)
    /\ edits' = edits + 1
    /\ disk' = [disk EXCEPT ![s][p] = NoFile]
    /\ UNCHANGED <<roots, configured, index, work, writer, enc, saved, ix, faults>>

\* A root directory is unmounted, or mounted again, which MaxEdits does not count.
MoveRoot(s) ==
    /\ \/ /\ s \in roots
          /\ edits < MaxEdits
          /\ edits' = edits + 1
          /\ roots' = roots \ {s}
       \/ /\ s \notin roots
          /\ roots' = roots \cup {s}
          /\ UNCHANGED edits
    /\ UNCHANGED <<disk, configured, index, work, writer, enc, saved, ix, faults>>

\* A page of the file is shown (read_text_safely again, in routers/content.py).
ViewFile(s, p) ==
    /\ Present(s, p) /\ enc[s][p] = None
    /\ enc' = [enc EXCEPT ![s][p] = Encoding(disk[s][p].content)]
    /\ UNCHANGED <<disk, roots, configured, index, work, writer, saved, ix, edits, faults>>

\* lru_cache(maxsize=256): 256 other paths were read since.
Forget(s, p) ==
    /\ enc[s][p] # None
    /\ enc' = [enc EXCEPT ![s][p] = None]
    /\ UNCHANGED <<disk, roots, configured, index, work, writer, saved, ix, edits, faults>>

\* Deleting a source: the YAML entry goes, then clear_source_index runs in a
\* transaction of its own; if that raises, "except: pass".
DeleteSource(s) ==
    /\ s \in configured
    /\ configured' = configured \ {s}
    /\ \/ /\ writer = None
          /\ index' = Cleared(index, s)
          /\ work' = Cleared(index, s)
          /\ UNCHANGED faults
       \/ /\ faults < MaxFaults
          /\ faults' = faults + 1
          /\ UNCHANGED <<index, work>>
    /\ UNCHANGED <<disk, roots, writer, enc, saved, ix, edits>>

\* The process dies; SQLite undoes the open transaction.
Crash ==
    /\ faults < MaxFaults
    /\ faults' = faults + 1
    /\ ix' = [t \in Threads |-> Idle]
    /\ work' = index
    /\ writer' = None
    /\ enc' = NothingKnown
    /\ UNCHANGED <<disk, roots, configured, index, saved, edits>>

-----------------------------------------------------------------------------
(* Specification *)

PassStep(t) ==
    \/ \E s \in Sources : SkipMissingRoot(t, s) \/ OpenSource(t, s)
    \/ \E p \in Paths : ClearEntry(t, p) \/ StatFile(t, p) \/ SweepRow(t, p)
    \/ ClearRow(t) \/ ListFiles(t)
    \/ LookUp(t) \/ Detect(t) \/ ReadFile(t)
    \/ WriteFile(t) \/ DeleteEntry(t) \/ InsertEntry(t)
    \/ SweepEntry(t) \/ LeaveSource(t) \/ Finish(t) \/ FileVanished(t)

Next ==
    \/ \E t \in Threads :
          \/ \E kind \in Kinds(t), chosen \in SUBSET configured, only \in Paths \cup {None} :
                Start(t, kind, chosen, only)
          \/ PassStep(t)
          \/ StepRaises(t)
    \/ \E s \in Sources :
          \/ \E p \in Paths :
                \/ RemoveFile(s, p) \/ ViewFile(s, p) \/ Forget(s, p)
                \/ \E c \in Contents : EditFile(s, p, c)
          \/ MoveRoot(s)
          \/ DeleteSource(s)
    \/ Crash

Spec == Init /\ [][Next]_vars

\* A pass that runs goes on, and syncs of everything come again and again (the
\* automatic sync, or users who press the button).  Nothing is assumed of the
\* disk; MaxEdits makes its changes finitely many.
Fairness ==
    /\ WF_vars(PassStep(Job))
    /\ SF_vars(Start(Job, "sync", configured, None))

FairSpec == Spec /\ Fairness

-----------------------------------------------------------------------------
(* Properties *)

\* Search joins documents_fts with documents by rowid: a row is found by the
\* text and owner of its entry.
Paired(w, s, p) ==
    w.fts[s][p] = [content |-> w.docs[s][p].content, owner |-> w.docs[s][p].owner]

\* What the indexers can read of a file: its text, or nonsense, if the file was
\* ever saved in another encoding.
Readable(s, p) ==
    {disk[s][p].content} \cup
       (IF disk[s][p] # NoFile /\ saved[s][p] # {Encoding(disk[s][p].content)}
          THEN {Garbled} ELSE {})

\* A row and its entry are written by separate statements.  Whatever runs side
\* by side, raises or crashes, only one commit can part them: that of a reindex
\* which went on after an exception.
PartedByReindexOnly ==
    [][\A s \in Sources, p \in Paths :
          Paired(index, s, p) /\ ~Paired(index', s, p) =>
             \E t \in Ingesters :
                writer = t /\ ix[t].kind = "reindex" /\ ix[t].failed]_vars

\* A sync skips a row that has its file's mtime and size, and never looks at
\* its entry, so a pair once parted stays parted.  A rebuild mends it: when it
\* commits a source, every row the syncs would skip has its entry, but for files
\* it passed over as too big.
RebuildMendsPairs ==
    [][ix[Job].kind = "rebuild" /\ ix[Job].pc = "files" /\ ix'[Job].pc = "source" =>
          \A p \in Paths :
             LET s == ix[Job].src
             IN  index'.docs[s][p] # NoDoc /\ p \notin ix[Job].tooBig
                 /\ index'.docs[s][p].stamp = disk[s][p].stamp => Paired(index', s, p)]_vars

\* A file is skipped when its mtime and size are those of its row.  So a row
\* with the file's stamp must have the file's text, whatever was edited while
\* an indexer was between its stat, its read and its write: a row that lies
\* here stays wrong until the next edit or rebuild.  Only a file that was saved
\* in two encodings can have a row of nonsense.
StampIsHonest ==
    \A s \in Sources, p \in Paths :
        index.docs[s][p] # NoDoc /\ index.docs[s][p].stamp = disk[s][p].stamp
            => index.docs[s][p].content \in Readable(s, p)

\* A job takes a document out of the index only when its file was not found by
\* the listing of that very pass, or was too big for its rebuild: no reader sees
\* the gap between a rebuild's clearing and its re-reading, and no error or crash
\* commits it.
DocumentsOutliveTheirFiles ==
    [][\A s \in Sources, p \in Paths :
          index.docs[s][p] # NoDoc /\ index'.docs[s][p] = NoDoc =>
             \/ s \notin configured'
             \/ /\ ix[Job].src = s /\ ix[Job].pc = "files"
                /\ p \notin ix[Job].existing \/ p \in ix[Job].tooBig]_vars

\* The index comes to agree with the disk for good, once the disk is at rest:
\* edits during a pass, failed passes and crashes are all caught up with, in
\* both tables.  What is wrong for good is the text of a file that was saved in
\* another encoding than the one remembered for it; a file too big comes with
\* every sync and goes with every rebuild.
IndexCatchesUp ==
    <>[](\A s \in configured \cap roots, p \in Paths :
            /\ Paired(index, s, p)
            /\ disk[s][p].content \notin Big => index.docs[s][p].content \in Readable(s, p))

\* UX_SPEC.md, deleting a source deletes its index data: nothing of a deleted
\* source is left in the index once no indexer runs (no errors).
DeletedSourceHasNoDocuments ==
    faults = 0 /\ (\A t \in Threads : ix[t].pc = "idle") =>
        \A s \in Sources \ configured : Rows(index, s) = {}

=============================================================================
