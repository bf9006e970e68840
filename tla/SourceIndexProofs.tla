------------------------- MODULE SourceIndexProofs --------------------------
(***************************************************************************)
(* Theorems of SourceIndex, for every set of sources, paths and texts and  *)
(* every bound.                                                            *)
(***************************************************************************)
EXTENDS SourceIndex, TLAPS

\* The empty row, file and pass are what the tables and threads start with.
LEMMA Nothings ==
    /\ NoFile \in File /\ NoDoc \in Doc /\ NoEntry \in Entry
    /\ Empty \in Tables /\ Idle \in Pass
<1>1. NoFile \in File /\ NoDoc \in Doc /\ NoEntry \in Entry
  BY DEF NoFile, NoDoc, NoEntry, File, Doc, Entry, Texts, Owners
<1>2. Empty \in Tables
  BY <1>1 DEF Empty, Tables
<1>3. Idle \in Pass
  BY <1>1 DEF Idle, Pass, Fields, Texts, InSource, AtRow, AtFile
<1> QED
  BY <1>1, <1>2, <1>3

\* The statements of upsert_document leave tables.
LEMMA UpsertType ==
    ASSUME NEW w \in Tables, NEW s \in Sources, NEW p \in Paths,
           NEW d \in Doc, NEW e \in Entry
    PROVE  /\ RowWritten(w, s, p, d) \in Tables
           /\ RowDeleted(w, s, p) \in Tables
           /\ EntryDeleted(w, s, p) \in Tables
           /\ EntryInserted(w, s, p, e) \in Tables
<1>1. w.docs \in [Sources -> [Paths -> Doc]] /\ w.fts \in [Sources -> [Paths -> Entry]]
  BY DEF Tables
<1>2. ASSUME NEW r \in Doc PROVE [w.docs EXCEPT ![s][p] = r] \in [Sources -> [Paths -> Doc]]
  BY <1>1
<1>3. ASSUME NEW f \in Entry PROVE [w.fts EXCEPT ![s][p] = f] \in [Sources -> [Paths -> Entry]]
  BY <1>1
<1>4. RowWritten(w, s, p, d) \in Tables
  BY <1>1, <1>2, <1>3, Nothings DEF RowWritten, Tables
<1>5. RowDeleted(w, s, p) \in Tables
  BY <1>1, <1>2, Nothings DEF RowDeleted, Tables
<1>6. EntryDeleted(w, s, p) \in Tables
  BY <1>1, <1>3, Nothings DEF EntryDeleted, Tables
<1>7. EntryInserted(w, s, p, e) \in Tables
  BY <1>1, <1>3 DEF EntryInserted, Tables
<1> QED
  BY <1>4, <1>5, <1>6, <1>7

\* update_document_metadata leaves tables.
LEMMA RestampedType ==
    ASSUME NEW w \in Tables, NEW s \in Sources, NEW p \in Paths, NEW n \in Nat
    PROVE  Restamped(w, s, p, n) \in Tables
<1>1. w.docs \in [Sources -> [Paths -> Doc]] /\ w.fts \in [Sources -> [Paths -> Entry]]
  BY DEF Tables
<1>2. [w.docs[s][p] EXCEPT !.stamp = n] \in Doc
  BY <1>1 DEF Doc
<1>3. [w.docs EXCEPT ![s][p].stamp = n] \in [Sources -> [Paths -> Doc]]
  BY <1>1, <1>2
<1> QED
  BY <1>1, <1>3 DEF Restamped, Tables

\* clear_source_index, as a deletion runs it, leaves tables.
LEMMA ClearedType ==
    ASSUME NEW w \in Tables, NEW s \in Sources
    PROVE  Cleared(w, s) \in Tables
<1>1. w.docs \in [Sources -> [Paths -> Doc]] /\ w.fts \in [Sources -> [Paths -> Entry]]
  BY DEF Tables
<1>2. [p \in Paths |-> NoDoc] \in [Paths -> Doc]
  BY Nothings
<1>3. [p \in Paths |-> IF p \in Rows(w, s) THEN NoEntry ELSE w.fts[s][p]] \in [Paths -> Entry]
  BY <1>1, Nothings
<1> QED
  BY <1>1, <1>2, <1>3 DEF Cleared, Tables

\* What a statement reads is tables.
LEMMA ViewType == ASSUME TypeOK, NEW t PROVE View(t) \in Tables
BY DEF View, TypeOK

\* A pass with another pc, and the path it needs there, is a pass.
LEMMA PassGoesOn ==
    ASSUME NEW m \in Pass, NEW pc \in {"idle", "source"} \cup InSource,
           NEW p \in Paths \cup {None},
           pc \in InSource => m.src \in Sources, pc \in AtRow \cup AtFile => p \in Paths
    PROVE  [m EXCEPT !.pc = pc, !.path = p] \in Pass
BY DEF Pass, Fields

-----------------------------------------------------------------------------
(* Types *)

\* Every variable keeps its type.
THEOREM TypeCorrect == Spec => []TypeOK
<1> USE SourceIndexAssumption
<1>1. Init => TypeOK
  BY Nothings DEF Init, TypeOK, NothingKnown
<1>2. TypeOK /\ [Next]_vars => TypeOK'
  <2> SUFFICES ASSUME TypeOK, [Next]_vars PROVE TypeOK'
    OBVIOUS
  <2> DEFINE PassesOK == ix \in [Threads -> Pass]
             WriterOK == work \in Tables /\ writer \in Threads \cup {None}
             DiskOK == /\ disk \in [Sources -> [Paths -> File]]
                       /\ saved \in [Sources -> [Paths -> SUBSET Encodings]]
                       /\ roots \subseteq Sources /\ edits \in Nat
             EncOK == enc \in [Sources -> [Paths -> Encodings \cup {None}]]
             OthersOK == configured \subseteq Sources /\ faults \in Nat
             IndexOK == index \in Tables
  <2>a. PassesOK /\ WriterOK /\ DiskOK /\ EncOK /\ OthersOK /\ IndexOK
    BY DEF TypeOK
  <2>z. PassesOK' /\ WriterOK' /\ DiskOK' /\ EncOK' /\ OthersOK' /\ IndexOK' => TypeOK'
    BY DEF TypeOK
  \* What the parts of a step keep.
  <2>b. ASSUME NEW t \in Threads, NEW m \in Pass, Go(t, m)
        PROVE  PassesOK'
    BY <2>a, <2>b DEF Go
  <2>c. ASSUME NEW t \in Threads, NEW w \in Tables, Writes(t, w)
        PROVE  WriterOK'
    BY <2>c DEF Writes
  <2>d. NoWrite => WriterOK'
    BY <2>a DEF NoWrite
  <2>e. DiskSame => DiskOK'
    BY <2>a DEF DiskSame
  <2>f. Others => OthersOK'
    BY <2>a DEF Others
  <2>g. (UNCHANGED index => IndexOK') /\ (UNCHANGED enc => EncOK')
    BY <2>a
  <2>h. ASSUME NEW t \in Threads, NEW p \in Paths, NextFile(t, p),
               ix[t].src \in Sources
        PROVE  PassesOK'
    <3> DEFINE m == [ix[t] EXCEPT !.pc = "files", !.left = @ \ {p}, !.path = None,
                                  !.stamp = 0, !.old = NoDoc, !.enc = None, !.text = None]
    <3>0. ix[t] \in Fields /\ NoDoc \in Doc /\ None \in Texts
      BY <2>a, Nothings DEF Pass, Texts
    <3>1. m \in Fields /\ m.pc = "files" /\ m.src = ix[t].src
      BY <3>0 DEF Fields, InSource
    <3>1a. m \in Pass
      BY <2>h, <3>1 DEF Pass, AtRow, AtFile
    <3> HIDE DEF m
    <3>2. Go(t, m)
      BY <2>h DEF NextFile, m
    <3> QED
      BY <2>b, <3>1a, <3>2
  <2>i. ASSUME NEW t \in Threads, Commits(t)
        PROVE  WriterOK' /\ IndexOK'
    BY <2>a, <2>i DEF Commits, NoWrite
  <2>j. ASSUME NEW t \in Threads, NEW pc \in InSource, ix[t].src \in Sources,
               NEW p \in Paths \cup {None}, pc \in AtRow \cup AtFile => p \in Paths,
               Go(t, [ix[t] EXCEPT !.pc = pc, !.path = p])
        PROVE  PassesOK'
    <3> DEFINE m == [ix[t] EXCEPT !.pc = pc, !.path = p]
    <3>1. m \in Pass
      BY <2>a, <2>j, PassGoesOn
    <3>2. Go(t, m)
      BY <2>j
    <3> HIDE DEF m
    <3> QED
      BY <2>b, <3>1, <3>2
  <2>k. ASSUME NEW t \in Threads, Abort(t)
        PROVE  PassesOK' /\ WriterOK' /\ DiskOK' /\ EncOK' /\ configured' \subseteq Sources
               /\ IndexOK'
    <3> DEFINE m == [Idle EXCEPT !.pc = "source", !.kind = "reindex",
                                 !.todo = ix[t].todo, !.failed = TRUE]
    <3>1. m \in Pass
      <4>1. ix[t].todo \in SUBSET Sources
        BY <2>a DEF Pass, Fields
      <4> QED
        BY <4>1, Nothings DEF Pass, Fields, InSource, AtRow, AtFile
    <3>2. Go(t, m) \/ Go(t, Idle)
      BY <2>k DEF Abort
    <3> HIDE DEF m
    <3>3. PassesOK'
      BY <2>b, <3>1, <3>2, Nothings
    <3>4. WriterOK'
      BY <2>a, <2>d, <2>k DEF Abort
    <3> QED
      BY <2>a, <2>e, <2>g, <2>k, <3>3, <3>4 DEF Abort
  <2> HIDE DEF PassesOK, WriterOK, DiskOK, EncOK, OthersOK, IndexOK
  <2>1. ASSUME NEW t \in Threads, NEW kind \in Kinds(t), NEW chosen \in SUBSET configured,
               NEW only \in Paths \cup {None}, Start(t, kind, chosen, only)
        PROVE  TypeOK'
    <3> DEFINE m == [Idle EXCEPT !.pc = "source", !.kind = kind, !.todo = chosen,
                              !.only = only]
    <3>1. kind \in {"sync", "rebuild", "ingest", "reindex"} /\ chosen \subseteq Sources
      BY <2>a DEF Kinds, OthersOK
    <3>2. m \in Pass
      BY <3>1, Nothings DEF Pass, Fields, InSource, AtRow, AtFile, Idle
    <3>3. Go(t, m)
      BY <2>1 DEF Start
    <3> HIDE DEF m
    <3> QED
      BY <2>1, <2>b, <2>d, <2>e, <2>f, <2>g, <2>z, <3>2, <3>3 DEF Start
  <2>2. ASSUME NEW t \in Threads, PassStep(t)
        PROVE  TypeOK'
    <3> DEFINE m == ix[t]
    <3>a. m \in Pass /\ View(t) \in Tables
      BY <2>a, ViewType DEF PassesOK
    <3>b. ASSUME DiskSame, Others, PassesOK', WriterOK', IndexOK', EncOK'
          PROVE  TypeOK'
      BY <3>b, <2>e, <2>f, <2>z
    <3>c. /\ m.pc \in InSource => m.src \in Sources
          /\ m.pc \in AtRow \cup AtFile => m.path \in Paths
      BY <3>a DEF Pass
    <3>1. ASSUME NEW s \in Sources, SkipMissingRoot(t, s)
          PROVE  TypeOK'
      <4> DEFINE next == [m EXCEPT !.todo = @ \ {s}]
      <4>1. next \in Pass
        BY <3>a DEF Pass, Fields, InSource, AtRow, AtFile
      <4>2. Go(t, next)
        BY <3>1 DEF SkipMissingRoot
      <4> HIDE DEF next
      <4> QED
        BY <3>1, <3>b, <4>1, <4>2, <2>b, <2>d, <2>g DEF SkipMissingRoot
    <3>2. ASSUME NEW s \in Sources, OpenSource(t, s)
          PROVE  TypeOK'
      <4> DEFINE clears == m.kind = "rebuild" /\ Rows(View(t), s) # {}
                 next == [m EXCEPT !.pc = IF clears THEN "clear" ELSE "list",
                                   !.src = s, !.todo = @ \ {s}]
      <4>1. next \in Pass
        <5>1. m \in Fields
          BY <3>a DEF Pass
        <5> HIDE DEF clears
        <5>2. next \in Fields /\ next.src = s /\ next.pc \in {"clear", "list"}
          BY <5>1 DEF Fields, InSource
        <5> QED
          BY <5>2 DEF Pass, AtRow, AtFile
      <4>2. Go(t, next)
        BY <3>2 DEF OpenSource
      <4> HIDE DEF next
      <4> QED
        BY <3>2, <3>b, <4>1, <4>2, <2>b, <2>d, <2>g DEF OpenSource
    <3>3. ASSUME NEW p \in Paths, ClearEntry(t, p)
          PROVE  TypeOK'
      <4>1. m.src \in Sources
        BY <3>3, <3>c DEF ClearEntry, InSource
      <4>2. WriterOK'
        BY <3>3, <3>a, <4>1, <2>c, UpsertType, Nothings DEF ClearEntry
      <4>3. PassesOK'
        BY <3>3, <4>1, <2>j DEF ClearEntry, InSource, AtRow
      <4> QED
        BY <3>3, <3>b, <4>2, <4>3, <2>g DEF ClearEntry
    <3>4. CASE ClearRow(t)
      <4>1. m.src \in Sources /\ m.path \in Paths
        BY <3>4, <3>c DEF ClearRow, InSource, AtRow
      <4>2. WriterOK'
        BY <3>4, <3>a, <4>1, <2>c, UpsertType, Nothings DEF ClearRow
      <4>3. PassesOK'
        BY <3>4, <4>1, <2>j DEF ClearRow, InSource, AtRow, AtFile
      <4> QED
        BY <3>4, <3>b, <4>2, <4>3, <2>g DEF ClearRow
    <3>5. CASE ListFiles(t)
      <4> DEFINE files == {p \in Paths : Present(m.src, p) /\ m.only \in {None, p}}
                 next == [m EXCEPT !.pc = "files", !.left = files, !.existing = files]
      <4>1. next \in Pass
        <5>1. files \in SUBSET Paths /\ m.src \in Sources
          BY <3>5, <3>c DEF ListFiles, InSource
        <5> HIDE DEF files
        <5> QED
          BY <5>1, <3>a DEF Pass, Fields, InSource, AtRow, AtFile
      <4>2. Go(t, next)
        BY <3>5 DEF ListFiles
      <4> HIDE DEF next
      <4> QED
        BY <3>5, <3>b, <4>1, <4>2, <2>b, <2>d, <2>g DEF ListFiles
    <3>6. ASSUME NEW p \in Paths, StatFile(t, p)
          PROVE  TypeOK'
      <4> DEFINE pc == IF m.kind = "rebuild" THEN "detect" ELSE "look"
                 stamp == disk[m.src][p].stamp
                 next == [m EXCEPT !.pc = pc, !.path = p, !.stamp = stamp, !.old = NoDoc]
                 past == [m EXCEPT !.left = @ \ {p}, !.tooBig = @ \cup {p}]
      <4>1. m.src \in Sources
        BY <3>6, <3>c DEF StatFile, InSource
      <4>2. next \in Pass
        <5>1. stamp \in Nat /\ NoDoc \in Doc /\ pc \in {"detect", "look"}
          BY <4>1, <2>a, Nothings DEF DiskOK, File
        <5>2. m \in Fields
          BY <3>a DEF Pass
        <5> HIDE DEF stamp, pc
        <5>3. /\ next \in Fields /\ next.src = m.src /\ next.path = p
              /\ next.pc \in {"detect", "look"}
          BY <5>1, <5>2 DEF Fields, InSource, AtFile
        <5> QED
          BY <5>3, <4>1 DEF Pass
      <4>3. past \in Pass
        BY <3>a DEF Pass, Fields
      <4>4. Go(t, past) \/ Go(t, next)
        BY <3>6 DEF StatFile
      <4> HIDE DEF next, past
      <4>5. PassesOK'
        BY <4>2, <4>3, <4>4, <2>b
      <4> QED
        BY <3>6, <3>b, <4>5, <2>d, <2>g DEF StatFile
    <3>7. CASE LookUp(t)
      <4>1. m.src \in Sources /\ m.path \in Paths
        BY <3>7, <3>c DEF LookUp, InSource, AtFile
      <4> DEFINE old == View(t).docs[m.src][m.path]
                 next == [m EXCEPT !.pc = "detect", !.old = old]
      <4>2. next \in Pass
        <5>1. old \in Doc
          BY <3>a, <4>1 DEF Tables
        <5> HIDE DEF old
        <5> QED
          BY <5>1, <4>1, <3>a DEF Pass, Fields, InSource, AtRow, AtFile
      <4>3. NextFile(t, m.path) \/ Go(t, next)
        BY <3>7 DEF LookUp
      <4> HIDE DEF next
      <4>4. PassesOK'
        BY <4>1, <4>2, <4>3, <2>b, <2>h
      <4> QED
        BY <3>7, <3>b, <4>4, <2>d, <2>g DEF LookUp
    <3>8. CASE Detect(t)
      <4>1. m.src \in Sources /\ m.path \in Paths
        BY <3>8, <3>c DEF Detect, InSource, AtFile
      <4> DEFINE Known(e) == [m EXCEPT !.pc = "read", !.enc = e]
      <4>2. ASSUME NEW e \in Encodings \cup {None}
            PROVE  Known(e) \in Pass
        BY <4>1, <3>a DEF Pass, Fields, InSource, AtRow, AtFile
      <4>3. ASSUME NEW e \in Encodings \cup {None}, Go(t, Known(e))
            PROVE  PassesOK'
        <5> HIDE DEF Known
        <5> QED
          BY <4>2, <4>3, <2>b
      <4> DEFINE found == Encoding(disk[m.src][m.path].content)
      <4>4. found \in Encodings /\ enc[m.src][m.path] \in Encodings \cup {None}
        BY <4>1, <2>a DEF Encoding, Encodings, EncOK
      <4>5. \/ Go(t, Known(enc[m.src][m.path])) /\ UNCHANGED enc
            \/ Go(t, Known(found)) /\ enc' = [enc EXCEPT ![m.src][m.path] = found]
        BY <3>8 DEF Detect
      <4> HIDE DEF found, Known
      <4>6. PassesOK'
        BY <4>3, <4>4, <4>5
      <4>7. EncOK'
        BY <4>1, <4>4, <4>5, <2>a DEF EncOK
      <4> QED
        BY <3>8, <3>b, <4>6, <4>7, <2>d, <2>g DEF Detect
    <3>9. CASE ReadFile(t)
      <4>1. m.src \in Sources /\ m.path \in Paths
        BY <3>9, <3>c DEF ReadFile, InSource, AtFile
      <4> DEFINE text == Decoded(disk[m.src][m.path].content, m.enc)
                 next == [m EXCEPT !.pc = "write", !.text = text]
      <4>2. next \in Pass
        <5>1. text \in Texts
          BY <4>1, <2>a DEF DiskOK, File, Decoded, Texts
        <5> HIDE DEF text
        <5> QED
          BY <5>1, <4>1, <3>a DEF Pass, Fields, InSource, AtRow, AtFile
      <4>3. Go(t, next)
        BY <3>9 DEF ReadFile
      <4> HIDE DEF next
      <4> QED
        BY <3>9, <3>b, <4>2, <4>3, <2>b, <2>d, <2>g DEF ReadFile
    <3>10. CASE WriteFile(t)
      <4>1. m.src \in Sources /\ m.path \in Paths
        BY <3>10, <3>c DEF WriteFile, InSource, AtFile
      <4> DEFINE d == [content |-> m.text, stamp |-> m.stamp,
                       owner |-> WrittenOwner(m.kind, m.src)]
                 next == [m EXCEPT !.pc = "unlist"]
      <4>2. d \in Doc /\ m.stamp \in Nat
        BY <3>a DEF Pass, Fields, Doc, WrittenOwner, Owners
      <4>3. next \in Pass
        BY <4>1, <3>a DEF Pass, Fields, InSource, AtRow, AtFile
      <4>4. \/ Writes(t, Restamped(View(t), m.src, m.path, m.stamp)) /\ NextFile(t, m.path)
            \/ Writes(t, RowWritten(View(t), m.src, m.path, d)) /\ Go(t, next)
        BY <3>10 DEF WriteFile
      <4> HIDE DEF d, next
      <4>5. WriterOK'
        BY <3>a, <4>1, <4>2, <4>4, <2>c, RestampedType, UpsertType, Nothings
      <4>6. PassesOK'
        BY <4>1, <4>3, <4>4, <2>b, <2>h
      <4> QED
        BY <3>10, <3>b, <4>5, <4>6, <2>g DEF WriteFile
    <3>11. CASE DeleteEntry(t)
      <4>1. m.src \in Sources /\ m.path \in Paths
        BY <3>11, <3>c DEF DeleteEntry, InSource, AtFile
      <4> DEFINE next == [m EXCEPT !.pc = "enlist"]
      <4>2. next \in Pass
        BY <4>1, <3>a DEF Pass, Fields, InSource, AtRow, AtFile
      <4>3. Go(t, next)
        BY <3>11 DEF DeleteEntry
      <4> HIDE DEF next
      <4>4. WriterOK'
        BY <3>11, <3>a, <4>1, <2>c, UpsertType, Nothings DEF DeleteEntry
      <4> QED
        BY <3>11, <3>b, <4>2, <4>3, <4>4, <2>b, <2>g DEF DeleteEntry
    <3>12. CASE InsertEntry(t)
      <4>1. m.src \in Sources /\ m.path \in Paths
        BY <3>12, <3>c DEF InsertEntry, InSource, AtFile
      <4> DEFINE e == [content |-> m.text, owner |-> WrittenOwner(m.kind, m.src)]
      <4>2. e \in Entry
        BY <3>a DEF Pass, Fields, Entry, WrittenOwner, Owners
      <4>3. Writes(t, EntryInserted(View(t), m.src, m.path, e)) /\ NextFile(t, m.path)
        BY <3>12 DEF InsertEntry
      <4> HIDE DEF e
      <4>4. WriterOK'
        BY <3>a, <4>1, <4>2, <4>3, <2>c, UpsertType, Nothings
      <4> QED
        BY <3>12, <3>b, <4>1, <4>3, <4>4, <2>g, <2>h DEF InsertEntry
    <3>13. ASSUME NEW p \in Paths, SweepRow(t, p)
           PROVE  TypeOK'
      <4>1. m.src \in Sources
        BY <3>13, <3>c DEF SweepRow, InSource
      <4>2. WriterOK'
        BY <3>13, <3>a, <4>1, <2>c, UpsertType, Nothings DEF SweepRow
      <4>3. PassesOK'
        BY <3>13, <4>1, <2>j DEF SweepRow, InSource, AtRow
      <4> QED
        BY <3>13, <3>b, <4>2, <4>3, <2>g DEF SweepRow
    <3>14. CASE SweepEntry(t)
      <4>1. m.src \in Sources /\ m.path \in Paths
        BY <3>14, <3>c DEF SweepEntry, InSource, AtRow
      <4>2. WriterOK'
        BY <3>14, <3>a, <4>1, <2>c, UpsertType, Nothings DEF SweepEntry
      <4>3. PassesOK'
        BY <3>14, <4>1, <2>j DEF SweepEntry, InSource, AtRow, AtFile
      <4> QED
        BY <3>14, <3>b, <4>2, <4>3, <2>g DEF SweepEntry
    <3>15. CASE LeaveSource(t)
      <4> DEFINE next == [m EXCEPT !.pc = "source", !.src = None, !.existing = {},
                                   !.tooBig = {}]
      <4>1. m \in Fields /\ {} \in SUBSET Paths
        BY <3>a DEF Pass
      <4>2. next \in Fields /\ next.pc = "source"
        BY <4>1 DEF Fields
      <4>3. next \in Pass
        BY <4>2 DEF Pass, InSource, AtRow, AtFile
      <4>4. Go(t, next) /\ (Commits(t) \/ (NoWrite /\ UNCHANGED index))
        BY <3>15 DEF LeaveSource
      <4> HIDE DEF next
      <4> QED
        BY <3>15, <3>b, <4>3, <4>4, <2>b, <2>d, <2>g, <2>i DEF LeaveSource
    <3>16. CASE Finish(t)
      BY <3>16, <3>b, <2>b, <2>g, <2>i, Nothings DEF Finish
    <3>17. CASE FileVanished(t)
      <4>1. OthersOK'
        BY <3>17, <2>a, <2>k DEF FileVanished, OthersOK
      <4> QED
        BY <3>17, <4>1, <2>k, <2>z DEF FileVanished
    <3> QED
      BY <2>2, <3>1, <3>2, <3>3, <3>4, <3>5, <3>6, <3>7, <3>8, <3>9, <3>10, <3>11,
         <3>12, <3>13, <3>14, <3>15, <3>16, <3>17 DEF PassStep
  <2>3. ASSUME NEW t \in Threads, StepRaises(t)
        PROVE  TypeOK'
    <3>1. OthersOK'
      BY <2>3, <2>a, <2>k DEF StepRaises, OthersOK
    <3> QED
      BY <2>3, <3>1, <2>k, <2>z DEF StepRaises
  <2>4. ASSUME NEW s \in Sources, NEW p \in Paths, NEW c \in Contents, EditFile(s, p, c)
        PROVE  TypeOK'
    <3>1. [content |-> c, stamp |-> edits + 1] \in File /\ Encoding(c) \in Encodings
      BY <2>a DEF File, Texts, DiskOK, Encoding, Encodings
    <3>2. DiskOK'
      BY <2>4, <2>a, <3>1 DEF EditFile, DiskOK
    <3> QED
      BY <2>4, <2>a, <2>z, <3>2 DEF EditFile, PassesOK, WriterOK, OthersOK, EncOK, IndexOK
  <2>5. ASSUME NEW s \in Sources, NEW p \in Paths, RemoveFile(s, p)
        PROVE  TypeOK'
    <3>1. DiskOK'
      BY <2>5, <2>a, Nothings DEF RemoveFile, DiskOK
    <3> QED
      BY <2>5, <2>a, <2>z, <3>1 DEF RemoveFile, PassesOK, WriterOK, OthersOK, EncOK, IndexOK
  <2>6. ASSUME NEW s \in Sources, MoveRoot(s)
        PROVE  TypeOK'
    <3>1. DiskOK'
      BY <2>6, <2>a DEF MoveRoot, DiskOK
    <3> QED
      BY <2>6, <2>a, <2>z, <3>1 DEF MoveRoot, PassesOK, WriterOK, OthersOK, EncOK, IndexOK
  <2>7. ASSUME NEW s \in Sources, NEW p \in Paths, ViewFile(s, p) \/ Forget(s, p)
        PROVE  TypeOK'
    <3>1. EncOK'
      BY <2>7, <2>a DEF ViewFile, Forget, EncOK, Encoding, Encodings
    <3> QED
      BY <2>7, <2>a, <2>z, <3>1
         DEF ViewFile, Forget, PassesOK, WriterOK, OthersOK, DiskOK, IndexOK
  <2>8. ASSUME NEW s \in Sources, DeleteSource(s)
        PROVE  TypeOK'
    <3>1. WriterOK' /\ IndexOK'
      BY <2>8, <2>a, ClearedType DEF DeleteSource, WriterOK, IndexOK
    <3>2. OthersOK'
      BY <2>8, <2>a DEF DeleteSource, OthersOK
    <3> QED
      BY <2>8, <2>a, <2>z, <3>1, <3>2 DEF DeleteSource, PassesOK, DiskOK, EncOK
  <2>9. CASE Crash
    <3>1. PassesOK'
      BY <2>9, Nothings DEF Crash, PassesOK
    <3>2. WriterOK' /\ OthersOK' /\ IndexOK'
      BY <2>9, <2>a DEF Crash, WriterOK, OthersOK, IndexOK
    <3>3. EncOK'
      BY <2>9 DEF Crash, EncOK, NothingKnown
    <3> QED
      BY <2>9, <2>a, <2>z, <3>1, <3>2, <3>3 DEF Crash, DiskOK
  <2>10. CASE UNCHANGED vars
    BY <2>10, <2>a, <2>z DEF vars, PassesOK, WriterOK, DiskOK, OthersOK, EncOK, IndexOK
  <2> QED
    BY <2>1, <2>2, <2>3, <2>4, <2>5, <2>6, <2>7, <2>8, <2>9, <2>10 DEF Next
<1> QED
  BY <1>1, <1>2, PTL DEF Spec

-----------------------------------------------------------------------------
(* A row and its entry *)

\* Nothing but what is said of one file differs.
Elsewhere(w, v, s, p) ==
    \A r \in Sources, q \in Paths : ~(r = s /\ q = p) =>
        v.docs[r][q] = w.docs[r][q] /\ v.fts[r][q] = w.fts[r][q]

\* Each statement touches one row or one entry.
LEMMA OneAtATime ==
    ASSUME NEW w \in Tables, NEW s \in Sources, NEW p \in Paths
    PROVE  /\ \A d : Elsewhere(w, RowWritten(w, s, p, d), s, p)
           /\ Elsewhere(w, RowDeleted(w, s, p), s, p)
           /\ Elsewhere(w, EntryDeleted(w, s, p), s, p)
           /\ \A e : Elsewhere(w, EntryInserted(w, s, p, e), s, p)
<1>1. w.docs \in [Sources -> [Paths -> Doc]] /\ w.fts \in [Sources -> [Paths -> Entry]]
      /\ w = [docs |-> w.docs, fts |-> w.fts]
  BY DEF Tables
<1>2. \A x : \A r \in Sources, q \in Paths : ~(r = s /\ q = p) =>
         [w.docs EXCEPT ![s][p] = x][r][q] = w.docs[r][q]
  BY <1>1
<1>3. \A x : \A r \in Sources, q \in Paths : ~(r = s /\ q = p) =>
         [w.fts EXCEPT ![s][p] = x][r][q] = w.fts[r][q]
  BY <1>1
<1>4. ASSUME NEW d PROVE Elsewhere(w, RowWritten(w, s, p, d), s, p)
  <2> DEFINE v == RowWritten(w, s, p, d)
  <2>1. v.docs = [w.docs EXCEPT ![s][p] = d]
    BY DEF RowWritten
  <2>2. v.fts = [w.fts EXCEPT ![s][p] = NoEntry] \/ v.fts = w.fts
    BY DEF RowWritten
  <2> HIDE DEF v
  <2>3. ASSUME NEW r \in Sources, NEW q \in Paths, ~(r = s /\ q = p)
        PROVE  v.docs[r][q] = w.docs[r][q] /\ v.fts[r][q] = w.fts[r][q]
    <3>1. [w.docs EXCEPT ![s][p] = d][r][q] = w.docs[r][q]
      BY <1>2, <2>3
    <3>2. [w.fts EXCEPT ![s][p] = NoEntry][r][q] = w.fts[r][q]
      BY <1>3, <2>3
    <3> QED
      BY <2>1, <2>2, <3>1, <3>2
  <2> QED
    BY <2>3 DEF Elsewhere, v
<1>5. Elsewhere(w, RowDeleted(w, s, p), s, p)
  <2>1. RowDeleted(w, s, p).docs = [w.docs EXCEPT ![s][p] = NoDoc]
        /\ RowDeleted(w, s, p).fts = w.fts
    BY <1>1 DEF RowDeleted
  <2> QED
    BY <1>2, <2>1 DEF Elsewhere
<1>6. Elsewhere(w, EntryDeleted(w, s, p), s, p)
  <2>1. EntryDeleted(w, s, p).docs = w.docs
        /\ EntryDeleted(w, s, p).fts = [w.fts EXCEPT ![s][p] = NoEntry]
    BY <1>1 DEF EntryDeleted
  <2> QED
    BY <1>3, <2>1 DEF Elsewhere
<1>7. ASSUME NEW e PROVE Elsewhere(w, EntryInserted(w, s, p, e), s, p)
  <2>1. EntryInserted(w, s, p, e).docs = w.docs
        /\ EntryInserted(w, s, p, e).fts = [w.fts EXCEPT ![s][p] = e]
    BY <1>1 DEF EntryInserted
  <2> QED
    BY <1>3, <2>1 DEF Elsewhere
<1> QED
  BY <1>4, <1>5, <1>6, <1>7

\* What each statement leaves at the row it is about.
LEMMA AtItsRow ==
    ASSUME NEW w \in Tables, NEW s \in Sources, NEW p \in Paths
    PROVE  /\ \A d : RowWritten(w, s, p, d).docs[s][p] = d
           /\ RowDeleted(w, s, p).docs[s][p] = NoDoc
           /\ RowDeleted(w, s, p).fts[s][p] = w.fts[s][p]
           /\ EntryDeleted(w, s, p).docs[s][p] = w.docs[s][p]
           /\ EntryDeleted(w, s, p).fts[s][p] = NoEntry
           /\ \A e : /\ EntryInserted(w, s, p, e).docs[s][p] = w.docs[s][p]
                    /\ EntryInserted(w, s, p, e).fts[s][p] = e
<1>1. w.docs \in [Sources -> [Paths -> Doc]] /\ w.fts \in [Sources -> [Paths -> Entry]]
      /\ w = [docs |-> w.docs, fts |-> w.fts]
  BY DEF Tables
<1>2. \A x : [w.docs EXCEPT ![s][p] = x][s][p] = x
  BY <1>1
<1>3. \A x : [w.fts EXCEPT ![s][p] = x][s][p] = x
  BY <1>1
<1>4. RowDeleted(w, s, p).docs[s][p] = NoDoc /\ RowDeleted(w, s, p).fts = w.fts
  BY <1>1, <1>2 DEF RowDeleted
<1>5. EntryDeleted(w, s, p).docs = w.docs /\ EntryDeleted(w, s, p).fts[s][p] = NoEntry
  BY <1>1, <1>3 DEF EntryDeleted
<1>6. ASSUME NEW e
      PROVE  EntryInserted(w, s, p, e).docs = w.docs /\ EntryInserted(w, s, p, e).fts[s][p] = e
  BY <1>1, <1>3 DEF EntryInserted
<1>7. ASSUME NEW d PROVE RowWritten(w, s, p, d).docs[s][p] = d
  BY <1>2 DEF RowWritten
<1> QED
  BY <1>4, <1>5, <1>6, <1>7

\* A new stamp leaves text and owner of every row.
LEMMA RestampedPairs ==
    ASSUME NEW w \in Tables, NEW s \in Sources, NEW p \in Paths, NEW n \in Nat,
           NEW r \in Sources, NEW q \in Paths
    PROVE  Paired(Restamped(w, s, p, n), r, q) <=> Paired(w, r, q)
<1>1. CASE w.docs[s][p] = NoDoc
  BY <1>1 DEF Restamped
<1>2. CASE w.docs[s][p] # NoDoc
  <2> DEFINE docs == [w.docs EXCEPT ![s][p].stamp = n]
  <2>1. Restamped(w, s, p, n) = [docs |-> docs, fts |-> w.fts]
    BY <1>2 DEF Restamped
  <2>2. docs[r][q].content = w.docs[r][q].content /\ docs[r][q].owner = w.docs[r][q].owner
    BY DEF Tables, Doc
  <2> QED
    BY <2>1, <2>2 DEF Paired
<1> QED
  BY <1>1, <1>2

\* A deletion parts no pair.
LEMMA ClearedPairs ==
    ASSUME NEW w \in Tables, NEW s \in Sources, NEW r \in Sources, NEW q \in Paths,
           Paired(w, r, q)
    PROVE  Paired(Cleared(w, s), r, q)
<1>1. w.docs \in [Sources -> [Paths -> Doc]] /\ w.fts \in [Sources -> [Paths -> Entry]]
  BY DEF Tables
<1>2. CASE r # s
  BY <1>1, <1>2 DEF Cleared, Paired
<1>3. CASE r = s
  <2>1. Cleared(w, s).docs[r][q] = NoDoc
    BY <1>1, <1>3 DEF Cleared
  <2>2. Cleared(w, s).fts[r][q] = IF w.docs[s][q] # NoDoc THEN NoEntry ELSE w.fts[s][q]
    BY <1>1, <1>3 DEF Cleared, Rows
  <2> QED
    BY <1>3, <2>1, <2>2 DEF Paired, NoDoc, NoEntry
<1> QED
  BY <1>2, <1>3

\* Between the first and the last statement about a row.
Half == AtRow \cup {"unlist", "enlist"}
IsHalf(t, s, p) == ix[t].pc \in Half /\ ix[t].src = s /\ ix[t].path = p

\* Only a reindex fails and goes on.
KindInv(t) ==
    /\ ix[t].failed => ix[t].kind = "reindex"
    /\ ix[t].kind = "reindex" => t \in Ingesters
    /\ ix[t].pc = "idle" => writer # t

\* What the first statement about a row has left for the next.
HalfInv(t) ==
    LET m == ix[t]
    IN  /\ m.pc \in Half => writer = t
        /\ m.pc = "cleared" => work.fts[m.src][m.path] = NoEntry
        /\ m.pc = "swept" => work.docs[m.src][m.path] = NoDoc
        /\ m.pc \in {"unlist", "enlist"} =>
              /\ work.docs[m.src][m.path].content = m.text
              /\ work.docs[m.src][m.path].owner = WrittenOwner(m.kind, m.src)

\* A pair that only the open transaction has parted.
Parted(s, p) == Paired(index, s, p) /\ ~Paired(work, s, p)

\* The inductive invariant: a pair the open transaction has parted is the one
\* its thread is at, or was left by an exception reindex has caught.
PairInv ==
    /\ writer = None => work = index
    /\ \A t \in Threads : KindInv(t) /\ HalfInv(t)
    /\ \A s \in Sources, p \in Paths : Parted(s, p) =>
          writer \in Threads /\ (ix[writer].failed \/ IsHalf(writer, s, p))

\* PairInv holds, whatever indexers run beside each other.
LEMMA PairInvHolds == Spec => []PairInv
<1> USE SourceIndexAssumption
<1>1. Init => PairInv
  BY DEF Init, PairInv, KindInv, HalfInv, Parted, Half, AtRow, Idle, Threads
<1>2. TypeOK /\ PairInv /\ [Next]_vars => PairInv'
  <2> SUFFICES ASSUME TypeOK, PairInv, [Next]_vars PROVE PairInv'
    OBVIOUS
  <2>a. /\ index \in Tables /\ work \in Tables /\ ix \in [Threads -> Pass]
        /\ writer \in Threads \cup {None} /\ None \notin Threads
    BY DEF TypeOK, Threads
  <2>b. \A t \in Threads :
           /\ ix[t] \in Fields /\ View(t) \in Tables
           /\ ix[t].pc \in InSource => ix[t].src \in Sources
           /\ ix[t].pc \in AtRow \cup AtFile => ix[t].path \in Paths
    BY <2>a DEF Pass, View
  <2>v. ASSUME NEW t \in Threads, writer \in {None, t}
        PROVE  View(t) = work
    BY <2>v DEF View, PairInv
  \* A step of one thread leaves the passes of the others what they are.
  <2>c. ASSUME NEW t \in Threads, NEW p, Go(t, p),
               UNCHANGED <<work, writer>> \/ writer \in {None, t},
               writer' \in {writer, t, None},
               NEW u \in Threads, u # t
        PROVE  KindInv(u)' /\ HalfInv(u)'
    <3>1. ix'[u] = ix[u]
      BY <2>a, <2>c DEF Go
    <3> QED
      BY <2>a, <2>c, <3>1 DEF PairInv, KindInv, HalfInv, Half, AtRow
  \* No statement is executed, and no row is half done.
  <2>d. ASSUME NEW t \in Threads, NEW p \in Fields, Go(t, p), NoWrite, UNCHANGED index,
               p.pc \notin Half, ix[t].pc \notin Half,
               p.failed => p.kind = "reindex", p.kind = "reindex" => t \in Ingesters,
               p.pc # "idle", writer = t /\ ix[t].failed => p.failed
        PROVE  PairInv'
    <3>1. ix'[t] = p /\ \A u \in Threads : u # t => ix'[u] = ix[u]
      BY <2>a, <2>d DEF Go
    <3>2. KindInv(t)' /\ HalfInv(t)'
      BY <2>d, <3>1 DEF KindInv, HalfInv, Half, AtRow
    <3>3. \A u \in Threads : KindInv(u)' /\ HalfInv(u)'
      BY <2>c, <2>d, <3>2 DEF NoWrite
    <3>4. ASSUME NEW s \in Sources, NEW q \in Paths, Parted(s, q)'
          PROVE  (writer \in Threads /\ (ix[writer].failed \/ IsHalf(writer, s, q)))'
      <4>1. Parted(s, q) /\ writer' = writer
        BY <2>d, <3>4 DEF Parted, NoWrite
      <4>2. writer \in Threads /\ (ix[writer].failed \/ IsHalf(writer, s, q))
        BY <4>1 DEF PairInv
      <4>3. CASE writer = t
        BY <2>d, <3>1, <4>1, <4>2, <4>3 DEF IsHalf
      <4>4. CASE writer # t
        BY <3>1, <4>1, <4>2, <4>4 DEF IsHalf
      <4> QED
        BY <4>3, <4>4
    <3> QED
      BY <2>d, <3>3, <3>4 DEF PairInv, NoWrite
  \* A statement is executed: what it parts is where its thread is.
  <2>e. ASSUME NEW t \in Threads, NEW p \in Fields, Go(t, p), NEW w, Writes(t, w),
               UNCHANGED index,
               p.failed = ix[t].failed, p.kind = ix[t].kind, p.pc # "idle", HalfInv(t)',
               \A s \in Sources, q \in Paths :
                  ~Paired(w, s, q) /\ ~(p.pc \in Half /\ p.src = s /\ p.path = q)
                     => ~Paired(work, s, q) /\ ~IsHalf(t, s, q)
        PROVE  PairInv'
    <3>1. ix'[t] = p
      BY <2>a, <2>e DEF Go
    <3>2. writer \in {None, t} /\ writer' = t /\ work' = w
      BY <2>e DEF Writes
    <3>3. KindInv(t)'
      BY <2>e, <3>1 DEF PairInv, KindInv
    <3>4. \A u \in Threads : KindInv(u)' /\ HalfInv(u)'
      BY <2>c, <2>e, <3>2, <3>3
    <3>5. ASSUME NEW s \in Sources, NEW q \in Paths, Parted(s, q)'
          PROVE  ix'[t].failed \/ IsHalf(t, s, q)'
      <4>1. Paired(index, s, q) /\ ~Paired(w, s, q)
        BY <2>e, <3>2, <3>5 DEF Parted
      <4>2. CASE ~IsHalf(t, s, q)'
        <5>1. ~Paired(work, s, q) /\ ~IsHalf(t, s, q)
          BY <2>e, <3>1, <4>1, <4>2 DEF IsHalf
        <5>2. writer = t /\ ix[t].failed
          BY <2>a, <3>2, <4>1, <5>1 DEF PairInv, Parted
        <5> QED
          BY <2>e, <3>1, <5>2
      <4> QED
        BY <4>2
    <3> QED
      BY <2>a, <3>2, <3>4, <3>5 DEF PairInv
  \* A transaction ends, or there was none.
  <2>f. ASSUME NEW t \in Threads, NEW p \in Fields, Go(t, p), p.pc \in {"idle", "source"},
               p.failed => p.kind = "reindex", p.kind = "reindex" => t \in Ingesters,
               \/ writer = t /\ index' = work' /\ writer' = None
               \/ writer # t /\ NoWrite /\ UNCHANGED index
        PROVE  PairInv'
    <3>1. ix'[t] = p /\ \A u \in Threads : u # t => ix'[u] = ix[u]
      BY <2>a, <2>f DEF Go
    <3>2. KindInv(t)' /\ HalfInv(t)'
      BY <2>a, <2>f, <3>1 DEF KindInv, HalfInv, Half, AtRow, NoWrite
    <3>3. \A u \in Threads : KindInv(u)' /\ HalfInv(u)'
      BY <2>c, <2>f, <3>2 DEF NoWrite
    <3>4. CASE writer = t /\ index' = work' /\ writer' = None
      BY <3>3, <3>4 DEF PairInv, Parted
    <3>5. CASE writer # t /\ NoWrite /\ UNCHANGED index
      BY <3>1, <3>3, <3>5 DEF PairInv, Parted, IsHalf, NoWrite
    <3> QED
      BY <2>f, <3>4, <3>5
  <2>g. ASSUME NEW t \in Threads, Abort(t)
        PROVE  PairInv'
    <3> DEFINE next == [Idle EXCEPT !.pc = "source", !.kind = "reindex",
                                    !.todo = ix[t].todo, !.failed = TRUE]
    <3>1. next \in Fields /\ Idle \in Fields
      BY <2>b, Nothings DEF Pass, Fields
    <3>2. /\ next.pc = "source" /\ next.kind = "reindex" /\ next.failed
          /\ Idle.pc = "idle" /\ ~Idle.failed /\ Idle.kind = "sync"
      BY DEF Idle
    <3>3. CASE ix[t].kind = "reindex" /\ ix[t].pc # "source"
      <4>1. Go(t, next) /\ NoWrite /\ UNCHANGED index
        BY <2>g, <3>3 DEF Abort
      <4> HIDE DEF next
      <4>2. ix'[t] = next /\ \A u \in Threads : u # t => ix'[u] = ix[u]
        BY <2>a, <4>1 DEF Go
      <4>3. KindInv(t)' /\ HalfInv(t)'
        BY <3>2, <3>3, <4>2 DEF PairInv, KindInv, HalfInv, Half, AtRow
      <4>4. \A u \in Threads : KindInv(u)' /\ HalfInv(u)'
        BY <2>c, <4>1, <4>3 DEF NoWrite
      <4>5. ASSUME NEW s \in Sources, NEW q \in Paths, Parted(s, q)'
            PROVE  (writer \in Threads /\ (ix[writer].failed \/ IsHalf(writer, s, q)))'
        <5>1. writer \in Threads /\ (ix[writer].failed \/ IsHalf(writer, s, q)) /\ writer' = writer
          BY <4>1, <4>5 DEF PairInv, Parted, NoWrite
        <5> QED
          BY <3>2, <4>2, <5>1 DEF IsHalf
      <4> QED
        BY <4>1, <4>4, <4>5 DEF PairInv, NoWrite
    <3>4. CASE ~(ix[t].kind = "reindex" /\ ix[t].pc # "source")
      <4>1. Go(t, Idle) /\ UNCHANGED index
            /\ IF writer = t THEN work' = index /\ writer' = None ELSE NoWrite
        BY <2>g, <3>4 DEF Abort
      <4> QED
        BY <2>f, <3>1, <3>2, <4>1
    <3> QED
      BY <3>3, <3>4
  <2>1. ASSUME NEW t \in Threads, NEW kind \in Kinds(t), NEW chosen \in SUBSET configured,
               NEW only \in Paths \cup {None}, Start(t, kind, chosen, only)
        PROVE  PairInv'
    <3> DEFINE next == [Idle EXCEPT !.pc = "source", !.kind = kind, !.todo = chosen,
                              !.only = only]
    <3>1. next \in Fields
      <4>1. kind \in {"sync", "rebuild", "ingest", "reindex"} /\ chosen \in SUBSET Sources
        BY DEF Kinds, TypeOK
      <4> QED
        BY <4>1, Nothings DEF Pass, Fields
    <3>2. next.pc = "source" /\ next.kind = kind /\ ~next.failed
      BY DEF Idle
    <3>3. Go(t, next) /\ NoWrite /\ UNCHANGED index /\ ix[t].pc = "idle"
      BY <2>1 DEF Start
    <3>4. kind = "reindex" => t \in Ingesters
      BY DEF Kinds, Threads
    <3> HIDE DEF next
    <3> QED
      BY <2>d, <3>1, <3>2, <3>3, <3>4 DEF Half, AtRow, PairInv, KindInv
  <2>2. ASSUME NEW t \in Threads, PassStep(t)
        PROVE  PairInv'
    <3> DEFINE m == ix[t]
    <3>a. /\ m \in Fields /\ View(t) \in Tables
          /\ m.pc \in InSource => m.src \in Sources
          /\ m.pc \in AtRow \cup AtFile => m.path \in Paths
      BY <2>b
    <3>b. /\ m.failed => m.kind = "reindex"
          /\ m.kind = "reindex" => t \in Ingesters
          /\ HalfInv(t)
      BY DEF PairInv, KindInv
    \* On to the next file.
    <3>c. ASSUME NEW p \in Paths, NextFile(t, p)
          PROVE  \E n \in Fields : /\ Go(t, n) /\ n.pc = "files" /\ n.src = m.src
                                   /\ n.failed = m.failed /\ n.kind = m.kind
      <4> DEFINE n == [m EXCEPT !.pc = "files", !.left = @ \ {p}, !.path = None,
                                !.stamp = 0, !.old = NoDoc, !.enc = None, !.text = None]
      <4>1. NoDoc \in Doc /\ None \in Texts
        BY Nothings DEF Texts
      <4>2. /\ n \in Fields /\ n.pc = "files" /\ n.src = m.src
            /\ n.failed = m.failed /\ n.kind = m.kind
        BY <3>a, <4>1 DEF Fields, InSource
      <4>3. Go(t, n)
        BY <3>c DEF NextFile
      <4> HIDE DEF n
      <4> QED
        BY <4>2, <4>3
    <3>1. ASSUME NEW n \in Fields, Go(t, n), NoWrite, UNCHANGED index,
                 n.pc \notin Half, m.pc \notin Half, n.pc # "idle",
                 n.failed = m.failed, n.kind = m.kind
          PROVE  PairInv'
      BY <2>d, <3>1, <3>b
    <3>2. ASSUME NEW s \in Sources, SkipMissingRoot(t, s)
          PROVE  PairInv'
      <4> DEFINE n == [m EXCEPT !.todo = @ \ {s}]
      <4>1. n \in Fields /\ n.pc = m.pc /\ n.failed = m.failed /\ n.kind = m.kind
        BY <3>a DEF Fields
      <4>2. Go(t, n) /\ m.pc = "source"
        BY <3>2 DEF SkipMissingRoot
      <4> HIDE DEF n
      <4> QED
        BY <3>1, <3>2, <4>1, <4>2 DEF SkipMissingRoot, Half, AtRow
    <3>3. ASSUME NEW s \in Sources, OpenSource(t, s)
          PROVE  PairInv'
      <4> DEFINE pc == IF m.kind = "rebuild" /\ Rows(View(t), s) # {} THEN "clear" ELSE "list"
                 n == [m EXCEPT !.pc = pc, !.src = s, !.todo = @ \ {s}]
      <4>1. Go(t, n) /\ m.pc = "source"
        BY <3>3 DEF OpenSource
      <4>2. pc \in {"clear", "list"}
        OBVIOUS
      <4> HIDE DEF pc
      <4>3. n \in Fields /\ n.pc \in {"clear", "list"} /\ n.failed = m.failed /\ n.kind = m.kind
        BY <3>a, <4>2 DEF Fields, InSource
      <4> HIDE DEF n
      <4> QED
        BY <3>1, <3>3, <4>1, <4>3 DEF OpenSource, Half, AtRow
    <3>4. CASE ListFiles(t)
      <4> DEFINE files == {p \in Paths : Present(m.src, p) /\ m.only \in {None, p}}
                 n == [m EXCEPT !.pc = "files", !.left = files, !.existing = files]
      <4>1. Go(t, n) /\ m.pc \in {"list", "clear"}
        BY <3>4 DEF ListFiles
      <4>2. files \in SUBSET Paths
        OBVIOUS
      <4> HIDE DEF files
      <4>3. n \in Fields /\ n.pc = "files" /\ n.failed = m.failed /\ n.kind = m.kind
        BY <3>a, <4>2 DEF Fields, InSource
      <4> HIDE DEF n
      <4> QED
        BY <3>1, <3>4, <4>1, <4>3 DEF ListFiles, Half, AtRow
    <3>5. ASSUME NEW p \in Paths, StatFile(t, p)
          PROVE  PairInv'
      <4> DEFINE pc == IF m.kind = "rebuild" THEN "detect" ELSE "look"
                 stamp == disk[m.src][p].stamp
                 n == [m EXCEPT !.pc = pc, !.path = p, !.stamp = stamp, !.old = NoDoc]
                 past == [m EXCEPT !.left = @ \ {p}, !.tooBig = @ \cup {p}]
      <4>1. (Go(t, n) \/ Go(t, past)) /\ m.pc = "files"
        BY <3>5 DEF StatFile
      <4>2. past \in Fields /\ past.pc = m.pc /\ past.failed = m.failed /\ past.kind = m.kind
        BY <3>a DEF Fields
      <4>3. pc \in {"detect", "look"} /\ stamp \in Nat /\ NoDoc \in Doc
        BY <3>a, <4>1, Nothings DEF TypeOK, File, InSource
      <4> HIDE DEF pc, stamp, past
      <4>4. n \in Fields /\ n.pc \in {"detect", "look"} /\ n.failed = m.failed /\ n.kind = m.kind
        BY <3>a, <4>3 DEF Fields, InSource, AtFile
      <4> HIDE DEF n
      <4> QED
        BY <3>1, <3>5, <4>1, <4>2, <4>4 DEF StatFile, Half, AtRow
    <3>6. CASE LookUp(t)
      <4> DEFINE old == View(t).docs[m.src][m.path]
                 n == [m EXCEPT !.pc = "detect", !.old = old]
      <4>1. /\ m.pc = "look" /\ m.src \in Sources /\ m.path \in Paths
            /\ Go(t, n) \/ NextFile(t, m.path)
        BY <3>6, <3>a DEF LookUp, InSource, AtFile
      <4>2. old \in Doc
        BY <3>a, <4>1 DEF Tables
      <4> HIDE DEF old
      <4>3. n \in Fields /\ n.pc = "detect" /\ n.failed = m.failed /\ n.kind = m.kind
        BY <3>a, <4>2 DEF Fields, InSource, AtFile
      <4> HIDE DEF n
      <4> QED
        BY <3>1, <3>6, <3>c, <4>1, <4>3 DEF LookUp, Half, AtRow
    <3>7. CASE Detect(t)
      <4> DEFINE N(e) == [m EXCEPT !.pc = "read", !.enc = e]
                 known == enc[m.src][m.path]
                 found == Encoding(disk[m.src][m.path].content)
      <4>1. m.pc = "detect" /\ m.src \in Sources /\ m.path \in Paths
            /\ (Go(t, N(known)) \/ Go(t, N(found)))
        BY <3>7, <3>a DEF Detect, InSource, AtFile
      <4>2. known \in Encodings \cup {None} /\ found \in Encodings \cup {None}
        BY <4>1 DEF TypeOK, Encoding, Encodings
      <4> HIDE DEF known, found
      <4>3. ASSUME NEW e \in Encodings \cup {None}
            PROVE  /\ N(e) \in Fields /\ N(e).pc = "read"
                   /\ N(e).failed = m.failed /\ N(e).kind = m.kind
        BY <3>a DEF Fields, InSource, AtFile
      <4> HIDE DEF N
      <4> QED
        BY <3>1, <3>7, <4>1, <4>2, <4>3 DEF Detect, Half, AtRow
    <3>8. CASE ReadFile(t)
      <4> DEFINE text == Decoded(disk[m.src][m.path].content, m.enc)
                 n == [m EXCEPT !.pc = "write", !.text = text]
      <4>1. m.pc = "read" /\ m.src \in Sources /\ m.path \in Paths /\ Go(t, n)
        BY <3>8, <3>a DEF ReadFile, InSource, AtFile
      <4>2. text \in Texts
        BY <4>1 DEF TypeOK, File, Decoded, Texts
      <4> HIDE DEF text
      <4>3. n \in Fields /\ n.pc = "write" /\ n.failed = m.failed /\ n.kind = m.kind
        BY <3>a, <4>2 DEF Fields, InSource, AtFile
      <4> HIDE DEF n
      <4> QED
        BY <3>1, <3>8, <4>1, <4>3 DEF ReadFile, Half, AtRow
    <3>9. ASSUME NEW p \in Paths, ClearEntry(t, p)
          PROVE  PairInv'
      <4> DEFINE w == EntryDeleted(View(t), m.src, p)
                 n == [m EXCEPT !.pc = "cleared", !.path = p]
      <4>1. m.pc = "clear" /\ m.src \in Sources /\ Writes(t, w) /\ Go(t, n) /\ UNCHANGED index
        BY <3>9, <3>a DEF ClearEntry, InSource
      <4>2. /\ n \in Fields /\ n.pc = "cleared" /\ n.path = p /\ n.src = m.src
            /\ n.failed = m.failed /\ n.kind = m.kind
        BY <3>a DEF Fields, InSource, AtRow
      <4>3. View(t) = work
        BY <2>v, <4>1 DEF Writes
      <4>4. w.fts[m.src][p] = NoEntry
        BY <4>1, <3>a, AtItsRow
      <4>5a. Elsewhere(work, w, m.src, p)
        BY <4>1, <4>3, <3>a, OneAtATime
      <4> HIDE DEF n, w
      <4>5. \A s \in Sources, q \in Paths :
               ~(s = m.src /\ q = p) => (Paired(w, s, q) <=> Paired(work, s, q))
        BY <4>5a DEF Elsewhere, Paired
      <4>6. ix'[t] = n /\ work' = w /\ writer' = t
        BY <2>a, <4>1 DEF Go, Writes
      <4>7. HalfInv(t)'
        BY <4>2, <4>4, <4>6 DEF HalfInv
      <4>8. \A s \in Sources, q \in Paths : ~IsHalf(t, s, q)
        BY <4>1 DEF IsHalf, Half, AtRow
      <4> QED
        BY <2>e, <4>1, <4>2, <4>5, <4>7, <4>8 DEF Half, AtRow
    <3>10. CASE ClearRow(t)
      <4> DEFINE w == RowDeleted(View(t), m.src, m.path)
                 n == [m EXCEPT !.pc = "clear", !.path = None]
      <4>1. /\ m.pc = "cleared" /\ m.src \in Sources /\ m.path \in Paths
            /\ Writes(t, w) /\ Go(t, n) /\ UNCHANGED index
        BY <3>10, <3>a DEF ClearRow, InSource, AtRow
      <4>2. n \in Fields /\ n.pc = "clear" /\ n.failed = m.failed /\ n.kind = m.kind
        BY <3>a DEF Fields, InSource
      <4>3. View(t) = work
        BY <2>v, <4>1 DEF Writes
      <4>4. Paired(w, m.src, m.path)
        BY <4>1, <4>3, <3>a, <3>b, AtItsRow DEF HalfInv, Paired, NoDoc, NoEntry
      <4>5a. Elsewhere(work, w, m.src, m.path)
        BY <4>1, <4>3, <3>a, OneAtATime
      <4> HIDE DEF n, w
      <4>5. \A s \in Sources, q \in Paths :
               ~(s = m.src /\ q = m.path) => (Paired(w, s, q) <=> Paired(work, s, q))
        BY <4>5a DEF Elsewhere, Paired
      <4>6. ix'[t] = n
        BY <2>a, <4>1 DEF Go
      <4>7. HalfInv(t)'
        BY <4>2, <4>6 DEF HalfInv, Half, AtRow
      <4> QED
        BY <2>e, <4>1, <4>2, <4>4, <4>5, <4>7 DEF IsHalf
    <3>11. CASE WriteFile(t)
      <4> DEFINE d == [content |-> m.text, stamp |-> m.stamp,
                       owner |-> WrittenOwner(m.kind, m.src)]
                 same == m.old # NoDoc /\ m.old.content = m.text
      <4>1. m.pc = "write" /\ m.src \in Sources /\ m.path \in Paths /\ m.stamp \in Nat
        BY <3>11, <3>a DEF WriteFile, InSource, AtFile, Fields
      <4>2. \A s \in Sources, q \in Paths : ~IsHalf(t, s, q)
        BY <4>1 DEF IsHalf, Half, AtRow
      <4>3. CASE same
        <5> DEFINE w == Restamped(View(t), m.src, m.path, m.stamp)
        <5>1. Writes(t, w) /\ NextFile(t, m.path) /\ UNCHANGED index
          BY <3>11, <4>3 DEF WriteFile
        <5>2. View(t) = work
          BY <2>v, <5>1 DEF Writes
        <5>3. \A s \in Sources, q \in Paths : Paired(w, s, q) <=> Paired(work, s, q)
          BY <3>a, <4>1, <5>2, RestampedPairs
        <5> HIDE DEF w
        <5>4. PICK n \in Fields : /\ Go(t, n) /\ n.pc = "files"
                                  /\ n.failed = m.failed /\ n.kind = m.kind
          BY <3>c, <4>1, <5>1
        <5>5. HalfInv(t)'
          BY <2>a, <5>4 DEF Go, HalfInv, Half, AtRow
        <5> QED
          BY <2>e, <4>2, <5>1, <5>3, <5>4, <5>5
      <4>4. CASE ~same
        <5> DEFINE w == RowWritten(View(t), m.src, m.path, d)
                   n == [m EXCEPT !.pc = "unlist"]
        <5>1. Writes(t, w) /\ Go(t, n) /\ UNCHANGED index
          BY <3>11, <4>4 DEF WriteFile
        <5>2. View(t) = work
          BY <2>v, <5>1 DEF Writes
        <5>3. w.docs[m.src][m.path] = d
          BY <3>a, <4>1, AtItsRow
        <5>4. \A s \in Sources, q \in Paths :
                 ~(s = m.src /\ q = m.path) => (Paired(w, s, q) <=> Paired(work, s, q))
          BY <3>a, <4>1, <5>2, OneAtATime DEF Elsewhere, Paired
        <5>5. /\ n \in Fields /\ n.pc = "unlist" /\ n.path = m.path /\ n.src = m.src
              /\ n.failed = m.failed /\ n.kind = m.kind /\ n.text = m.text
          BY <3>a DEF Fields, InSource, AtFile
        <5>6. d.content = m.text /\ d.owner = WrittenOwner(m.kind, m.src)
          OBVIOUS
        <5> HIDE DEF n, w, d
        <5>7. ix'[t] = n /\ work' = w /\ writer' = t
          BY <2>a, <5>1 DEF Go, Writes
        <5>8. HalfInv(t)'
          BY <5>3, <5>5, <5>6, <5>7 DEF HalfInv
        <5> QED
          BY <2>e, <4>2, <5>1, <5>4, <5>5, <5>8 DEF Half
      <4> QED
        BY <4>3, <4>4
    <3>12. CASE DeleteEntry(t)
      <4> DEFINE w == EntryDeleted(View(t), m.src, m.path)
                 n == [m EXCEPT !.pc = "enlist"]
      <4>1. /\ m.pc = "unlist" /\ m.src \in Sources /\ m.path \in Paths
            /\ Writes(t, w) /\ Go(t, n) /\ UNCHANGED index
        BY <3>12, <3>a DEF DeleteEntry, InSource, AtFile
      <4>2. /\ n \in Fields /\ n.pc = "enlist" /\ n.path = m.path /\ n.src = m.src
            /\ n.failed = m.failed /\ n.kind = m.kind /\ n.text = m.text
        BY <3>a DEF Fields, InSource, AtFile
      <4>3. View(t) = work
        BY <2>v, <4>1 DEF Writes
      <4>4. w.docs[m.src][m.path] = work.docs[m.src][m.path]
        BY <4>1, <4>3, <3>a, AtItsRow
      <4>5a. Elsewhere(work, w, m.src, m.path)
        BY <4>1, <4>3, <3>a, OneAtATime
      <4> HIDE DEF n, w
      <4>5. \A s \in Sources, q \in Paths :
               ~(s = m.src /\ q = m.path) => (Paired(w, s, q) <=> Paired(work, s, q))
        BY <4>5a DEF Elsewhere, Paired
      <4>6. ix'[t] = n /\ work' = w /\ writer' = t
        BY <2>a, <4>1 DEF Go, Writes
      <4>7. HalfInv(t)'
        BY <3>b, <4>1, <4>2, <4>4, <4>6 DEF HalfInv
      <4> QED
        BY <2>e, <4>1, <4>2, <4>5, <4>7 DEF IsHalf, Half
    <3>13. CASE InsertEntry(t)
      <4> DEFINE e == [content |-> m.text, owner |-> WrittenOwner(m.kind, m.src)]
                 w == EntryInserted(View(t), m.src, m.path, e)
      <4>1. /\ m.pc = "enlist" /\ m.src \in Sources /\ m.path \in Paths
            /\ Writes(t, w) /\ NextFile(t, m.path) /\ UNCHANGED index
        BY <3>13, <3>a DEF InsertEntry, InSource, AtFile
      <4>2. View(t) = work
        BY <2>v, <4>1 DEF Writes
      <4>3. w.docs[m.src][m.path] = work.docs[m.src][m.path] /\ w.fts[m.src][m.path] = e
        BY <4>1, <4>2, <3>a, AtItsRow
      <4>4. Paired(w, m.src, m.path)
        BY <3>b, <4>1, <4>3 DEF HalfInv, Paired
      <4>5a. Elsewhere(work, w, m.src, m.path)
        BY <4>1, <4>2, <3>a, OneAtATime
      <4> HIDE DEF w
      <4>5. \A s \in Sources, q \in Paths :
               ~(s = m.src /\ q = m.path) => (Paired(w, s, q) <=> Paired(work, s, q))
        BY <4>5a DEF Elsewhere, Paired
      <4>6. PICK n \in Fields : /\ Go(t, n) /\ n.pc = "files"
                                /\ n.failed = m.failed /\ n.kind = m.kind
        BY <3>c, <4>1
      <4>7. HalfInv(t)'
        BY <2>a, <4>6 DEF Go, HalfInv, Half, AtRow
      <4> QED
        BY <2>e, <4>1, <4>4, <4>5, <4>6, <4>7 DEF IsHalf
    <3>14. ASSUME NEW p \in Paths, SweepRow(t, p)
           PROVE  PairInv'
      <4> DEFINE w == RowDeleted(View(t), m.src, p)
                 n == [m EXCEPT !.pc = "swept", !.path = p]
      <4>1. m.pc = "files" /\ m.src \in Sources /\ Writes(t, w) /\ Go(t, n) /\ UNCHANGED index
        BY <3>14, <3>a DEF SweepRow, InSource
      <4>2. /\ n \in Fields /\ n.pc = "swept" /\ n.path = p /\ n.src = m.src
            /\ n.failed = m.failed /\ n.kind = m.kind
        BY <3>a DEF Fields, InSource, AtRow
      <4>3. View(t) = work
        BY <2>v, <4>1 DEF Writes
      <4>4. w.docs[m.src][p] = NoDoc
        BY <4>1, <3>a, AtItsRow
      <4>5a. Elsewhere(work, w, m.src, p)
        BY <4>1, <4>3, <3>a, OneAtATime
      <4> HIDE DEF n, w
      <4>5. \A s \in Sources, q \in Paths :
               ~(s = m.src /\ q = p) => (Paired(w, s, q) <=> Paired(work, s, q))
        BY <4>5a DEF Elsewhere, Paired
      <4>6. ix'[t] = n /\ work' = w /\ writer' = t
        BY <2>a, <4>1 DEF Go, Writes
      <4>7. HalfInv(t)'
        BY <4>2, <4>4, <4>6 DEF HalfInv
      <4>8. \A s \in Sources, q \in Paths : ~IsHalf(t, s, q)
        BY <4>1 DEF IsHalf, Half, AtRow
      <4> QED
        BY <2>e, <4>1, <4>2, <4>5, <4>7, <4>8 DEF Half, AtRow
    <3>15. CASE SweepEntry(t)
      <4> DEFINE w == EntryDeleted(View(t), m.src, m.path)
                 n == [m EXCEPT !.pc = "files", !.path = None]
      <4>1. /\ m.pc = "swept" /\ m.src \in Sources /\ m.path \in Paths
            /\ Writes(t, w) /\ Go(t, n) /\ UNCHANGED index
        BY <3>15, <3>a DEF SweepEntry, InSource, AtRow
      <4>2. n \in Fields /\ n.pc = "files" /\ n.failed = m.failed /\ n.kind = m.kind
        BY <3>a DEF Fields, InSource
      <4>3. View(t) = work
        BY <2>v, <4>1 DEF Writes
      <4>4. Paired(w, m.src, m.path)
        BY <4>1, <4>3, <3>a, <3>b, AtItsRow DEF HalfInv, Paired, NoDoc, NoEntry
      <4>5a. Elsewhere(work, w, m.src, m.path)
        BY <4>1, <4>3, <3>a, OneAtATime
      <4> HIDE DEF n, w
      <4>5. \A s \in Sources, q \in Paths :
               ~(s = m.src /\ q = m.path) => (Paired(w, s, q) <=> Paired(work, s, q))
        BY <4>5a DEF Elsewhere, Paired
      <4>6. ix'[t] = n
        BY <2>a, <4>1 DEF Go
      <4>7. HalfInv(t)'
        BY <4>2, <4>6 DEF HalfInv, Half, AtRow
      <4> QED
        BY <2>e, <4>1, <4>2, <4>4, <4>5, <4>7 DEF IsHalf
    <3>16. CASE LeaveSource(t)
      <4> DEFINE n == [m EXCEPT !.pc = "source", !.src = None, !.existing = {},
                                !.tooBig = {}]
      <4>1. n \in Fields /\ n.pc = "source" /\ n.failed = m.failed /\ n.kind = m.kind
        BY <3>a DEF Fields
      <4>2. m.pc = "files" /\ Go(t, n)
        BY <3>16 DEF LeaveSource
      <4> HIDE DEF n
      <4>3. CASE NoWrite /\ UNCHANGED index
        BY <3>1, <4>1, <4>2, <4>3 DEF Half, AtRow
      <4>4. CASE Commits(t)
        BY <2>f, <3>b, <4>1, <4>2, <4>4 DEF Commits
      <4> QED
        BY <3>16, <4>3, <4>4 DEF LeaveSource
    <3>17. CASE Finish(t)
      <4>1. Go(t, Idle) /\ Commits(t)
        BY <3>17 DEF Finish
      <4>2. Idle \in Fields /\ Idle.pc = "idle" /\ ~Idle.failed /\ Idle.kind = "sync"
        BY Nothings DEF Idle, Pass
      <4> QED
        BY <2>f, <4>1, <4>2 DEF Commits
    <3>18. CASE FileVanished(t)
      BY <3>18, <2>g DEF FileVanished
    <3> QED
      BY <2>2, <3>2, <3>3, <3>4, <3>5, <3>6, <3>7, <3>8, <3>9, <3>10, <3>11, <3>12,
         <3>13, <3>14, <3>15, <3>16, <3>17, <3>18 DEF PassStep
  <2>3. ASSUME NEW t \in Threads, StepRaises(t)
        PROVE  PairInv'
    BY <2>3, <2>g DEF StepRaises
  <2>4. ASSUME NEW s \in Sources, DeleteSource(s)
        PROVE  PairInv'
    <3>1. UNCHANGED <<ix, writer>>
          /\ (UNCHANGED <<index, work>> \/ (writer = None /\ index' = work'))
      BY <2>4 DEF DeleteSource
    <3>2. CASE UNCHANGED <<index, work>>
      BY <3>1, <3>2 DEF PairInv, KindInv, HalfInv, Parted, IsHalf, Paired
    <3>3. CASE writer = None /\ index' = work'
      <4>1. \A t \in Threads : ix[t].pc \notin Half
        BY <2>a, <3>3 DEF PairInv, HalfInv
      <4>2. \A t \in Threads : KindInv(t)' /\ HalfInv(t)'
        BY <3>1, <4>1 DEF PairInv, KindInv, HalfInv, Half, AtRow
      <4> QED
        BY <3>1, <3>3, <4>2 DEF PairInv, Parted
    <3> QED
      BY <3>1, <3>2, <3>3
  <2>5. CASE Crash
    <3>1. \A t \in Threads : ix'[t] = Idle
      BY <2>5 DEF Crash
    <3>2. \A t \in Threads : KindInv(t)' /\ HalfInv(t)'
      BY <2>5, <2>a, <3>1 DEF Crash, KindInv, HalfInv, Half, AtRow, Idle
    <3> QED
      BY <2>5, <3>2 DEF Crash, PairInv, Parted
  <2>6. CASE UNCHANGED <<index, work, writer, ix>>
    BY <2>6 DEF PairInv, KindInv, HalfInv, Parted, IsHalf, Paired
  <2> QED
    BY <2>1, <2>2, <2>3, <2>4, <2>5, <2>6
       DEF Next, RemoveFile, EditFile, MoveRoot, ViewFile, Forget, vars
<1> QED
  BY <1>1, <1>2, TypeCorrect, PTL DEF Spec

\* Whatever indexers run beside each other, fail or crash, and whatever source
\* is deleted meanwhile, only a reindex that caught an exception commits half a
\* pair.
THEOREM PairsPartedByReindexOnly == Spec => PartedByReindexOnly
<1> USE SourceIndexAssumption
<1> DEFINE Reindex == \E t \in Ingesters :
                         writer = t /\ ix[t].kind = "reindex" /\ ix[t].failed
<1>1. TypeOK /\ PairInv /\ [Next]_vars =>
        [\A s \in Sources, p \in Paths :
            Paired(index, s, p) /\ ~Paired(index', s, p) => Reindex]_vars
  <2> SUFFICES ASSUME TypeOK, PairInv, Next, NEW s \in Sources, NEW p \in Paths,
                      Paired(index, s, p), ~Paired(index', s, p)
               PROVE  Reindex
    BY DEF vars
  <2>a. index \in Tables /\ work \in Tables
    BY DEF TypeOK
  <2>b. ~UNCHANGED index
    OBVIOUS
  <2>1. ASSUME NEW t \in Threads, LeaveSource(t) \/ Finish(t)
        PROVE  Reindex
    <3>1. ix[t].pc \in {"files", "source"} /\ writer = t /\ index' = work
      BY <2>1, <2>b DEF LeaveSource, Finish, Commits
    <3>2. Parted(s, p) /\ ix[t].pc \notin Half
      BY <3>1 DEF Parted, Half, AtRow
    <3>3. ix[t].failed
      BY <3>1, <3>2 DEF PairInv, IsHalf
    <3> QED
      BY <3>1, <3>3 DEF PairInv, KindInv
  <2>2. ASSUME NEW r \in Sources, DeleteSource(r)
        PROVE  FALSE
    <3>1. index' = Cleared(index, r)
      BY <2>2, <2>b DEF DeleteSource
    <3> QED
      BY <2>a, <3>1, ClearedPairs
  <2> HIDE DEF Reindex
  <2>3. ASSUME NEW t \in Threads, PassStep(t)
        PROVE  LeaveSource(t) \/ Finish(t)
    BY <2>3, <2>b
       DEF PassStep, SkipMissingRoot, OpenSource, ClearEntry, ClearRow, ListFiles, StatFile,
           LookUp, Detect, ReadFile, WriteFile, DeleteEntry, InsertEntry, SweepRow,
           SweepEntry, FileVanished, Abort
  <2> QED
    BY <2>b, <2>1, <2>2, <2>3
       DEF Next, Start, StepRaises, Abort, EditFile, RemoveFile, MoveRoot, ViewFile, Forget,
           Crash
<1>2. [][\A s \in Sources, p \in Paths :
            Paired(index, s, p) /\ ~Paired(index', s, p) => Reindex]_vars
        => PartedByReindexOnly
  BY DEF PartedByReindexOnly
<1> QED
  BY <1>1, <1>2, TypeCorrect, PairInvHolds, PTL DEF Spec

-----------------------------------------------------------------------------
(* One indexer at a time: the stamp of a row can be relied on *)

\* A row has a stamp that was given to a file, and, if the file still has that
\* stamp, a text that can be read of it.
Honest(w) ==
    \A s \in Sources, p \in Paths : w.docs[s][p] # NoDoc =>
        /\ w.docs[s][p].stamp \in 1..edits
        /\ w.docs[s][p].stamp = disk[s][p].stamp => w.docs[s][p].content \in Readable(s, p)

\* Files have the stamps that were given, and were saved in the encodings they
\* have and the process remembers.
StampsGiven ==
    \A s \in Sources, p \in Paths :
        /\ disk[s][p].stamp \in 0..edits
        /\ disk[s][p] # NoFile => disk[s][p].stamp # 0
        /\ disk[s][p] # NoFile => Encoding(disk[s][p].content) \in saved[s][p]

EncodingsSaved ==
    \A s \in Sources, p \in Paths : enc[s][p] # None => enc[s][p] \in saved[s][p]

\* Between its stat and its write the job holds a stamp that was given, an
\* encoding the file was saved in, a text that can be read of the file if that
\* still has the stamp, and the row it looked up, which only a deletion can
\* have changed.
PassInv ==
    LET m == ix[Job]
    IN  /\ m.pc \in AtFile => m.stamp \in 1..edits
        /\ m.pc = "read" => m.enc \in saved[m.src][m.path]
        /\ m.pc = "write" /\ m.stamp = disk[m.src][m.path].stamp
              => m.text \in Readable(m.src, m.path)
        /\ m.pc \in {"detect", "read", "write"} /\ m.old # NoDoc
              => work.docs[m.src][m.path] \in {NoDoc, m.old}

\* The inductive invariant.
HonestInv ==
    /\ writer = None => work = index
    /\ StampsGiven
    /\ EncodingsSaved
    /\ Honest(index) /\ Honest(work)
    /\ PassInv

\* Statements that delete rows, or touch entries only, leave honest rows.
LEMMA HonestStatements ==
    ASSUME NEW w \in Tables, NEW s \in Sources, NEW p \in Paths, Honest(w)
    PROVE  /\ Honest(EntryDeleted(w, s, p))
           /\ \A e : Honest(EntryInserted(w, s, p, e))
           /\ Honest(RowDeleted(w, s, p))
           /\ Honest(Cleared(w, s))
<1>1. w.docs \in [Sources -> [Paths -> Doc]] /\ w = [docs |-> w.docs, fts |-> w.fts]
  BY DEF Tables
<1>2. /\ EntryDeleted(w, s, p).docs = w.docs
      /\ \A e : EntryInserted(w, s, p, e).docs = w.docs
      /\ RowDeleted(w, s, p).docs = [w.docs EXCEPT ![s][p] = NoDoc]
      /\ Cleared(w, s).docs = [w.docs EXCEPT ![s] = [q \in Paths |-> NoDoc]]
  BY <1>1 DEF EntryDeleted, EntryInserted, RowDeleted, Cleared
<1>3. ASSUME NEW v, \A r \in Sources, q \in Paths : v.docs[r][q] \in {NoDoc, w.docs[r][q]}
      PROVE  Honest(v)
  BY <1>3 DEF Honest
<1>4. /\ \A r \in Sources, q \in Paths : RowDeleted(w, s, p).docs[r][q] \in {NoDoc, w.docs[r][q]}
      /\ \A r \in Sources, q \in Paths : Cleared(w, s).docs[r][q] \in {NoDoc, w.docs[r][q]}
  BY <1>1, <1>2
<1>5. /\ \A r \in Sources, q \in Paths : EntryDeleted(w, s, p).docs[r][q] = w.docs[r][q]
      /\ \A e : \A r \in Sources, q \in Paths : EntryInserted(w, s, p, e).docs[r][q] = w.docs[r][q]
  BY <1>2
<1>6. Honest(EntryDeleted(w, s, p)) /\ Honest(RowDeleted(w, s, p)) /\ Honest(Cleared(w, s))
  BY <1>3, <1>4, <1>5
<1>7. ASSUME NEW e PROVE Honest(EntryInserted(w, s, p, e))
  BY <1>3, <1>5
<1> QED
  BY <1>6, <1>7

\* A file read in an encoding it was saved in gives one of its readings.
LEMMA DecodedReadable ==
    ASSUME NEW s \in Sources, NEW p \in Paths, disk[s][p] # NoFile,
           NEW e \in saved[s][p], Encoding(disk[s][p].content) \in saved[s][p]
    PROVE  Decoded(disk[s][p].content, e) \in Readable(s, p)
BY DEF Decoded, Readable

\* With no ingest or reindex beside the job, HonestInv holds.
LEMMA HonestInvHolds ==
    ASSUME Ingesters = {} PROVE Spec => []HonestInv
<1> USE SourceIndexAssumption
<1>1. Init => HonestInv
  BY DEF Init, HonestInv, Honest, StampsGiven, EncodingsSaved, PassInv, Empty, Idle, AtFile,
         Threads, NoFile, NothingKnown
<1>2. TypeOK /\ HonestInv /\ [Next]_vars => HonestInv'
  <2> SUFFICES ASSUME TypeOK, HonestInv, [Next]_vars PROVE HonestInv'
    OBVIOUS
  <2> DEFINE m == ix[Job]
             WorkInv == writer = None => work = index
  <2>a. /\ disk \in [Sources -> [Paths -> File]] /\ roots \subseteq Sources
        /\ saved \in [Sources -> [Paths -> SUBSET Encodings]]
        /\ enc \in [Sources -> [Paths -> Encodings \cup {None}]]
        /\ index \in Tables /\ work \in Tables
        /\ index.docs \in [Sources -> [Paths -> Doc]]
        /\ work.docs \in [Sources -> [Paths -> Doc]]
        /\ ix \in [Threads -> Pass] /\ edits \in Nat /\ Threads = {Job}
        /\ writer \in {Job, None} /\ Job # None
    BY DEF TypeOK, Tables, Threads
  <2>b. /\ m \in Fields
        /\ m.pc \in InSource => m.src \in Sources
        /\ m.pc \in AtRow \cup AtFile => m.path \in Paths
        /\ View(Job) = work
    BY <2>a DEF Pass, View, HonestInv
  <2>c. /\ WorkInv /\ StampsGiven /\ EncodingsSaved
        /\ Honest(index) /\ Honest(work) /\ PassInv
    BY DEF HonestInv
  <2>d. WorkInv' /\ StampsGiven' /\ EncodingsSaved' /\ Honest(index)' /\ Honest(work)' /\ PassInv'
          => HonestInv'
    BY DEF HonestInv
  <2>f. DiskSame => StampsGiven' /\ (UNCHANGED enc => EncodingsSaved')
    BY <2>c DEF DiskSame, StampsGiven, EncodingsSaved
  <2>g. ASSUME DiskSame, NEW w, Honest(w), index' \in {index, w}, work' = w
        PROVE  Honest(index)' /\ Honest(work)'
    BY <2>c, <2>g DEF DiskSame, Honest, Readable
  <2>h. DiskSame /\ NoWrite /\ UNCHANGED index
          => WorkInv' /\ StampsGiven' /\ Honest(index)' /\ Honest(work)'
    BY <2>c, <2>f, <2>g DEF NoWrite
  \* Where the job has no file, nothing is asked of its pass, and little once
  \* the row is written.
  <2>i. ix[Job].pc' \notin AtFile => PassInv'
    BY DEF PassInv, AtFile
  <2>j. ASSUME NEW p, Go(Job, p), DiskSame, p.stamp \in 1..edits,
               p.pc \in {"unlist", "enlist"}
        PROVE  PassInv'
    <3>1. ix'[Job] = p /\ UNCHANGED edits
      BY <2>a, <2>j DEF Go, DiskSame
    <3> QED
      BY <2>j, <3>1 DEF PassInv, AtFile
  <2>k. ASSUME NEW p \in Paths, NextFile(Job, p)
        PROVE  PassInv'
    BY <2>a, <2>b, <2>i, <2>k DEF NextFile, Go, AtFile, Fields
  \* A statement that makes honest rows.
  <2>l. ASSUME DiskSame, UNCHANGED <<index, enc>>, NEW w, Writes(Job, w), Honest(w), PassInv'
        PROVE  HonestInv'
    <3>1. writer' = Job /\ work' = w
      BY <2>l DEF Writes
    <3> QED
      BY <2>a, <2>d, <2>f, <2>g, <2>l, <3>1 DEF WorkInv
  <2>m. ASSUME Abort(Job)
        PROVE  HonestInv'
    <3>0. ix'[Job].pc \in {"idle", "source"}
      <4> DEFINE again == [Idle EXCEPT !.pc = "source", !.kind = "reindex",
                                       !.todo = ix[Job].todo, !.failed = TRUE]
      <4>1. again.pc = "source" /\ Idle.pc = "idle"
        BY DEF Idle
      <4>2. Go(Job, again) \/ Go(Job, Idle)
        BY <2>m DEF Abort
      <4> HIDE DEF again
      <4> QED
        BY <4>1, <4>2, <2>a DEF Go
    <3>1. PassInv'
      BY <3>0, <2>i DEF AtFile
    <3>2. DiskSame /\ UNCHANGED <<index, enc>> /\ (NoWrite \/ work' = index)
      BY <2>m DEF Abort
    <3>3. WorkInv'
      BY <2>c, <2>m DEF Abort, NoWrite
    <3> QED
      BY <2>c, <2>d, <2>f, <2>g, <3>1, <3>2, <3>3 DEF NoWrite
  <2>n. ASSUME Commits(Job), DiskSame, UNCHANGED enc, PassInv'
        PROVE  HonestInv'
    <3>1. CASE index' = work /\ writer' = None /\ UNCHANGED work
      BY <2>c, <2>d, <2>f, <2>g, <2>n, <3>1
    <3>2. CASE NoWrite /\ UNCHANGED index
      BY <2>d, <2>f, <2>h, <2>n, <3>2
    <3> QED
      BY <2>n, <3>1, <3>2 DEF Commits
  <2> HIDE DEF WorkInv
  <2>1. ASSUME NEW kind, NEW chosen, NEW only, Start(Job, kind, chosen, only)
        PROVE  HonestInv'
    BY <2>1, <2>a, <2>d, <2>f, <2>h, <2>i DEF Start, Go, Idle, AtFile
  <2>2. ASSUME NEW s \in Sources, SkipMissingRoot(Job, s)
        PROVE  HonestInv'
    BY <2>2, <2>a, <2>b, <2>d, <2>f, <2>h, <2>i DEF SkipMissingRoot, Go, AtFile, Fields
  <2>3. ASSUME NEW s \in Sources, OpenSource(Job, s)
        PROVE  HonestInv'
    <3>1. PassInv'
      BY <2>3, <2>a, <2>b, <2>i DEF OpenSource, Go, AtFile, Fields
    <3> QED
      BY <2>3, <2>d, <2>f, <2>h, <3>1 DEF OpenSource
  <2>4. CASE ListFiles(Job)
    BY <2>4, <2>a, <2>b, <2>d, <2>f, <2>h, <2>i DEF ListFiles, Go, AtFile, Fields
  <2>5. ASSUME NEW p \in Paths, StatFile(Job, p)
        PROVE  HonestInv'
    <3> DEFINE pc == IF m.kind = "rebuild" THEN "detect" ELSE "look"
               next == [m EXCEPT !.pc = pc, !.path = p, !.stamp = disk[m.src][p].stamp,
                                 !.old = NoDoc]
               past == [m EXCEPT !.left = @ \ {p}, !.tooBig = @ \cup {p}]
    <3>1. m.src \in Sources /\ disk[m.src][p].stamp \in 1..edits /\ m.pc = "files"
      BY <2>5, <2>a, <2>b, <2>c DEF StatFile, Present, StampsGiven, InSource
    <3>2. Go(Job, past) \/ Go(Job, next)
      BY <2>5 DEF StatFile
    <3>3. ASSUME Go(Job, next)
          PROVE  PassInv'
      <4>1. ix'[Job] = next
        BY <2>a, <3>3 DEF Go
      <4>2. next.pc \in {"look", "detect"} /\ next.old = NoDoc
            /\ next.stamp = disk[m.src][p].stamp
        BY <2>b DEF Fields
      <4>3. UNCHANGED edits
        BY <2>5 DEF StatFile, DiskSame
      <4> HIDE DEF next
      <4> QED
        BY <4>1, <4>2, <4>3, <3>1 DEF PassInv
    <3>4. past.pc = "files"
      BY <2>b, <3>1 DEF Fields
    <3> HIDE DEF past
    <3>5. Go(Job, past) => PassInv'
      BY <2>a, <2>i, <3>4 DEF Go, AtFile
    <3> QED
      BY <2>5, <2>d, <2>f, <2>h, <3>2, <3>3, <3>5 DEF StatFile
  <2>6. CASE LookUp(Job)
    <3> DEFINE old == View(Job).docs[m.src][m.path]
               next == [m EXCEPT !.pc = "detect", !.old = old]
    <3>1. m.pc = "look" /\ m.path \in Paths
      BY <2>6, <2>b DEF LookUp, AtFile
    <3>2. NextFile(Job, m.path) \/ Go(Job, next)
      BY <2>6 DEF LookUp
    <3>3. ASSUME Go(Job, next)
          PROVE  PassInv'
      <4>1. ix'[Job] = next
        BY <2>a, <3>3 DEF Go
      <4>2. /\ next.pc = "detect" /\ next.src = m.src /\ next.path = m.path
            /\ next.stamp = m.stamp /\ next.old = work.docs[m.src][m.path]
        BY <2>b DEF Fields
      <4>3. UNCHANGED <<edits, work>>
        BY <2>6 DEF LookUp, DiskSame, NoWrite
      <4> HIDE DEF next
      <4> QED
        BY <4>1, <4>2, <4>3, <3>1, <2>c DEF PassInv, AtFile
    <3>4. PassInv'
      BY <2>k, <3>1, <3>2, <3>3
    <3> QED
      BY <2>6, <2>d, <2>f, <2>h, <3>4 DEF LookUp
  <2>7. CASE Detect(Job)
    <3> DEFINE N(e) == [m EXCEPT !.pc = "read", !.enc = e]
               known == enc[m.src][m.path]
               found == Encoding(disk[m.src][m.path].content)
    <3>1. m.pc = "detect" /\ m.src \in Sources /\ m.path \in Paths
      BY <2>7, <2>b DEF Detect, InSource, AtFile
    <3>2. \/ known # None /\ Go(Job, N(known)) /\ UNCHANGED enc
          \/ /\ Present(m.src, m.path) /\ Go(Job, N(found))
             /\ enc' = [enc EXCEPT ![m.src][m.path] = found]
      BY <2>7 DEF Detect
    <3>3. ASSUME NEW e, Go(Job, N(e)), e \in saved[m.src][m.path]
          PROVE  PassInv'
      <4> DEFINE next == N(e)
      <4>1. ix'[Job] = next
        BY <2>a, <3>3 DEF Go
      <4>2. /\ next.pc = "read" /\ next.src = m.src /\ next.path = m.path
            /\ next.stamp = m.stamp /\ next.old = m.old /\ next.enc = e
        BY <2>b DEF Fields
      <4>3. UNCHANGED <<saved, edits, work>>
        BY <2>7 DEF Detect, DiskSame, NoWrite
      <4> HIDE DEF next
      <4> QED
        BY <4>1, <4>2, <4>3, <3>1, <3>3, <2>c DEF PassInv, AtFile
    <3>4. known # None => known \in saved[m.src][m.path]
      BY <3>1, <2>c DEF EncodingsSaved
    <3>5. Present(m.src, m.path) => found \in saved[m.src][m.path]
      BY <3>1, <2>c DEF StampsGiven, Present
    <3> HIDE DEF N, known, found
    <3>6. PassInv'
      BY <3>2, <3>3, <3>4, <3>5
    <3>7. UNCHANGED saved
      BY <2>7 DEF Detect, DiskSame
    <3>8. EncodingsSaved'
      <4>1. \A r \in Sources, q \in Paths :
               enc'[r][q] = enc[r][q] \/ (r = m.src /\ q = m.path /\ enc'[r][q] = found
                                          /\ Present(m.src, m.path))
        BY <2>a, <3>1, <3>2
      <4> QED
        BY <2>c, <3>5, <3>7, <4>1 DEF EncodingsSaved
    <3> QED
      BY <2>7, <2>d, <2>f, <2>h, <3>6, <3>8 DEF Detect
  <2>8. CASE ReadFile(Job)
    <3> DEFINE text == Decoded(disk[m.src][m.path].content, m.enc)
               next == [m EXCEPT !.pc = "write", !.text = text]
    <3>1. /\ m.pc = "read" /\ Go(Job, next) /\ Present(m.src, m.path)
          /\ m.src \in Sources /\ m.path \in Paths
      BY <2>8, <2>b DEF ReadFile, InSource, AtFile
    <3>2. ix'[Job] = next
      BY <2>a, <3>1 DEF Go
    <3>3. /\ next.pc = "write" /\ next.src = m.src /\ next.path = m.path
          /\ next.stamp = m.stamp /\ next.old = m.old /\ next.text = text
      BY <2>b DEF Fields
    <3>4. UNCHANGED <<disk, saved, edits, work>>
      BY <2>8 DEF ReadFile, DiskSame, NoWrite
    <3>5. text \in Readable(m.src, m.path)
      BY <3>1, <2>c, DecodedReadable DEF PassInv, StampsGiven, Present
    <3> HIDE DEF next, text
    <3>6. PassInv'
      BY <3>1, <3>2, <3>3, <3>4, <3>5, <2>c DEF PassInv, Readable, AtFile
    <3> QED
      BY <2>8, <2>d, <2>f, <2>h, <3>6 DEF ReadFile
  <2>9. CASE WriteFile(Job)
    <3> DEFINE d == [content |-> m.text, stamp |-> m.stamp,
                     owner |-> WrittenOwner(m.kind, m.src)]
               next == [m EXCEPT !.pc = "unlist"]
    <3>1. /\ m.pc = "write" /\ m.src \in Sources /\ m.path \in Paths /\ m.stamp \in 1..edits
          /\ m.stamp = disk[m.src][m.path].stamp => m.text \in Readable(m.src, m.path)
          /\ m.old # NoDoc => work.docs[m.src][m.path] \in {NoDoc, m.old}
      BY <2>9, <2>b, <2>c DEF WriteFile, PassInv, InSource, AtFile
    <3>2. DiskSame /\ UNCHANGED <<index, enc>>
      BY <2>9 DEF WriteFile
    <3>3. CASE m.old # NoDoc /\ m.old.content = m.text
      <4> DEFINE w == Restamped(work, m.src, m.path, m.stamp)
      <4>1. Writes(Job, w) /\ NextFile(Job, m.path)
        BY <2>9, <2>b, <3>3 DEF WriteFile
      <4>2. Honest(w)
        <5>1. CASE work.docs[m.src][m.path] = NoDoc
          BY <5>1, <2>c DEF Restamped
        <5>2. CASE work.docs[m.src][m.path] # NoDoc
          <6> DEFINE docs == [work.docs EXCEPT ![m.src][m.path].stamp = m.stamp]
          <6>1. w.docs = docs
            BY <5>2 DEF Restamped
          <6>2. work.docs[m.src][m.path].content = m.text
            BY <3>1, <3>3, <5>2
          <6>3. \A s \in Sources, p \in Paths :
                  IF s = m.src /\ p = m.path
                    THEN docs[s][p].content = m.text /\ docs[s][p].stamp = m.stamp
                    ELSE docs[s][p] = work.docs[s][p]
            BY <2>a, <3>1, <6>2 DEF Doc
          <6> HIDE DEF docs, w
          <6> QED
            BY <3>1, <6>1, <6>3, <2>c DEF Honest
        <5> QED
          BY <5>1, <5>2
      <4> HIDE DEF w
      <4> QED
        BY <2>k, <2>l, <3>1, <3>2, <4>1, <4>2
    <3>4. CASE ~(m.old # NoDoc /\ m.old.content = m.text)
      <4> DEFINE w == RowWritten(work, m.src, m.path, d)
      <4>1. Writes(Job, w) /\ Go(Job, next)
        BY <2>9, <2>b, <3>4 DEF WriteFile
      <4>2. w.docs = [work.docs EXCEPT ![m.src][m.path] = d]
        BY DEF RowWritten
      <4>3. d.content = m.text /\ d.stamp = m.stamp
        OBVIOUS
      <4>4. next.pc = "unlist" /\ next.stamp = m.stamp
        BY <2>b DEF Fields
      <4> HIDE DEF w, d, next
      <4>5. \A s \in Sources, p \in Paths :
              w.docs[s][p] = IF s = m.src /\ p = m.path THEN d ELSE work.docs[s][p]
        BY <4>2, <2>a
      <4>6. Honest(w)
        BY <3>1, <4>3, <4>5, <2>c DEF Honest
      <4>7. PassInv'
        BY <2>j, <3>1, <3>2, <4>1, <4>4
      <4> QED
        BY <2>l, <3>2, <4>1, <4>6, <4>7
    <3> QED
      BY <3>3, <3>4
  <2>10. CASE DeleteEntry(Job)
    <3> DEFINE next == [m EXCEPT !.pc = "enlist"]
               w == EntryDeleted(work, m.src, m.path)
    <3>1. /\ m.src \in Sources /\ m.path \in Paths /\ m.stamp \in 1..edits
          /\ Writes(Job, w) /\ Go(Job, next) /\ DiskSame /\ UNCHANGED <<index, enc>>
      BY <2>10, <2>b, <2>c DEF DeleteEntry, PassInv, InSource, AtFile
    <3>2. Honest(w)
      BY <2>a, <2>c, <3>1, HonestStatements
    <3>3. next.pc = "enlist" /\ next.stamp = m.stamp
      BY <2>b DEF Fields
    <3> HIDE DEF next, w
    <3>4. PassInv'
      BY <2>j, <3>1, <3>3
    <3> QED
      BY <2>l, <3>1, <3>2, <3>4
  <2>11. CASE InsertEntry(Job)
    <3> DEFINE e == [content |-> m.text, owner |-> WrittenOwner(m.kind, m.src)]
               w == EntryInserted(work, m.src, m.path, e)
    <3>1. /\ m.src \in Sources /\ m.path \in Paths
          /\ Writes(Job, w) /\ NextFile(Job, m.path) /\ DiskSame /\ UNCHANGED <<index, enc>>
      BY <2>11, <2>b DEF InsertEntry, InSource, AtFile
    <3> HIDE DEF e
    <3>2. Honest(w)
      BY <2>a, <2>c, <3>1, HonestStatements
    <3> HIDE DEF w
    <3> QED
      BY <2>k, <2>l, <3>1, <3>2
  <2>12. ASSUME NEW p \in Paths, ClearEntry(Job, p)
         PROVE  HonestInv'
    <3> DEFINE w == EntryDeleted(work, m.src, p)
    <3>1. m.src \in Sources /\ Writes(Job, w) /\ DiskSame /\ UNCHANGED <<index, enc>>
      BY <2>12, <2>b DEF ClearEntry, InSource
    <3>2. Honest(w)
      BY <2>a, <2>c, <3>1, HonestStatements
    <3>3. PassInv'
      BY <2>12, <2>a, <2>b, <2>i DEF ClearEntry, Go, AtFile, Fields
    <3> HIDE DEF w
    <3> QED
      BY <2>l, <3>1, <3>2, <3>3
  <2>13. CASE ClearRow(Job)
    <3> DEFINE w == RowDeleted(work, m.src, m.path)
    <3>1. /\ m.src \in Sources /\ m.path \in Paths
          /\ Writes(Job, w) /\ DiskSame /\ UNCHANGED <<index, enc>>
      BY <2>13, <2>b DEF ClearRow, InSource, AtRow
    <3>2. Honest(w)
      BY <2>a, <2>c, <3>1, HonestStatements
    <3>3. PassInv'
      BY <2>13, <2>a, <2>b, <2>i DEF ClearRow, Go, AtFile, Fields
    <3> HIDE DEF w
    <3> QED
      BY <2>l, <3>1, <3>2, <3>3
  <2>14. ASSUME NEW p \in Paths, SweepRow(Job, p)
         PROVE  HonestInv'
    <3> DEFINE w == RowDeleted(work, m.src, p)
    <3>1. m.src \in Sources /\ Writes(Job, w) /\ DiskSame /\ UNCHANGED <<index, enc>>
      BY <2>14, <2>b DEF SweepRow, InSource
    <3>2. Honest(w)
      BY <2>a, <2>c, <3>1, HonestStatements
    <3>3. PassInv'
      BY <2>14, <2>a, <2>b, <2>i DEF SweepRow, Go, AtFile, Fields
    <3> HIDE DEF w
    <3> QED
      BY <2>l, <3>1, <3>2, <3>3
  <2>15. CASE SweepEntry(Job)
    <3> DEFINE w == EntryDeleted(work, m.src, m.path)
    <3>1. /\ m.src \in Sources /\ m.path \in Paths
          /\ Writes(Job, w) /\ DiskSame /\ UNCHANGED <<index, enc>>
      BY <2>15, <2>b DEF SweepEntry, InSource, AtRow
    <3>2. Honest(w)
      BY <2>a, <2>c, <3>1, HonestStatements
    <3>3. PassInv'
      BY <2>15, <2>a, <2>b, <2>i DEF SweepEntry, Go, AtFile, Fields
    <3> HIDE DEF w
    <3> QED
      BY <2>l, <3>1, <3>2, <3>3
  <2>16. CASE LeaveSource(Job)
    <3>1. PassInv'
      BY <2>16, <2>a, <2>b, <2>i DEF LeaveSource, Go, AtFile, Fields
    <3> QED
      BY <2>16, <2>n, <3>1 DEF LeaveSource
  <2>17. CASE Finish(Job)
    <3>1. PassInv'
      BY <2>17, <2>a, <2>i DEF Finish, Go, Idle, AtFile
    <3> QED
      BY <2>17, <2>n, <3>1 DEF Finish
  <2>18. CASE FileVanished(Job) \/ StepRaises(Job)
    BY <2>18, <2>m DEF FileVanished, StepRaises
  <2>19. ASSUME NEW s \in Sources, NEW p \in Paths, NEW c \in Contents, EditFile(s, p, c)
         PROVE  HonestInv'
    <3> DEFINE new == [content |-> c, stamp |-> edits + 1]
    <3>1. /\ disk' = [disk EXCEPT ![s][p] = new] /\ edits' = edits + 1
          /\ saved' = [saved EXCEPT ![s][p] = @ \cup {Encoding(c)}]
          /\ UNCHANGED <<index, work, writer, enc, ix>>
      BY <2>19 DEF EditFile
    <3>2. new.stamp = edits + 1 /\ new.content = c
      OBVIOUS
    <3> HIDE DEF new
    <3>3. \A r \in Sources, q \in Paths :
            /\ disk'[r][q] = IF r = s /\ q = p THEN new ELSE disk[r][q]
            /\ saved'[r][q] = IF r = s /\ q = p THEN saved[r][q] \cup {Encoding(c)}
                                                ELSE saved[r][q]
      BY <3>1, <2>a
    <3>4. \A n : n \in 1..edits => n \in 1..edits' /\ n # edits + 1
      BY <3>1, <2>a
    <3>5. \A r \in Sources, q \in Paths :
            ~(r = s /\ q = p) => Readable(r, q)' = Readable(r, q)
      BY <3>3 DEF Readable
    <3>6. StampsGiven' /\ EncodingsSaved'
      <4>1. ASSUME NEW r \in Sources, NEW q \in Paths
            PROVE  /\ disk'[r][q].stamp \in 0..edits'
                   /\ disk'[r][q] # NoFile => disk'[r][q].stamp # 0
        BY <3>1, <3>2, <3>3, <2>a, <2>c DEF StampsGiven, File
      <4>2. ASSUME NEW r \in Sources, NEW q \in Paths, disk'[r][q] # NoFile
            PROVE  Encoding(disk'[r][q].content) \in saved'[r][q]
        BY <3>2, <3>3, <4>2, <2>c DEF StampsGiven
      <4>3. EncodingsSaved'
        BY <3>1, <3>3, <2>c DEF EncodingsSaved
      <4> QED
        BY <4>1, <4>2, <4>3 DEF StampsGiven
    <3>7. Honest(index)' /\ Honest(work)'
      <4>1. ASSUME NEW w, Honest(w), NEW r \in Sources, NEW q \in Paths,
                   w.docs[r][q] # NoDoc
            PROVE  /\ w.docs[r][q].stamp \in 1..edits'
                   /\ w.docs[r][q].stamp = disk'[r][q].stamp
                        => w.docs[r][q].content \in Readable(r, q)'
        <5>1. w.docs[r][q].stamp \in 1..edits'  /\ w.docs[r][q].stamp # edits + 1
          BY <3>4, <4>1 DEF Honest
        <5>2. CASE r = s /\ q = p
          BY <3>2, <3>3, <5>1, <5>2
        <5>3. CASE ~(r = s /\ q = p)
          <6>1. disk'[r][q] = disk[r][q] /\ Readable(r, q)' = Readable(r, q)
            BY <3>3, <3>5, <5>3
          <6>2. w.docs[r][q].stamp = disk[r][q].stamp => w.docs[r][q].content \in Readable(r, q)
            BY <4>1 DEF Honest
          <6> QED
            BY <5>1, <6>1, <6>2
        <5> QED
          BY <5>2, <5>3
      <4> QED
        BY <3>1, <4>1, <2>c DEF Honest
    <3>8. PassInv'
      BY <3>1, <3>2, <3>3, <3>4, <3>5, <2>b, <2>c DEF PassInv, InSource, AtFile
    <3> QED
      BY <3>1, <3>6, <3>7, <3>8, <2>c, <2>d DEF WorkInv
  <2>20. ASSUME NEW s \in Sources, NEW p \in Paths, RemoveFile(s, p)
         PROVE  HonestInv'
    <3>1. /\ disk' = [disk EXCEPT ![s][p] = NoFile] /\ edits' = edits + 1
          /\ UNCHANGED <<index, work, writer, enc, saved, ix>>
      BY <2>20 DEF RemoveFile
    <3>2. NoFile.stamp = 0
      BY DEF NoFile
    <3>3. \A r \in Sources, q \in Paths :
            disk'[r][q] = IF r = s /\ q = p THEN NoFile ELSE disk[r][q]
      BY <3>1, <2>a
    <3>4. \A n : n \in 1..edits => n \in 1..edits' /\ n # 0
      BY <3>1, <2>a
    <3>5. \A r \in Sources, q \in Paths :
            ~(r = s /\ q = p) => Readable(r, q)' = Readable(r, q)
      BY <3>1, <3>3 DEF Readable
    <3>6. StampsGiven' /\ EncodingsSaved'
      BY <3>1, <3>2, <3>3, <2>a, <2>c DEF StampsGiven, EncodingsSaved, File
    <3>7. Honest(index)' /\ Honest(work)'
      BY <3>1, <3>2, <3>3, <3>4, <3>5, <2>c DEF Honest
    <3>8. PassInv'
      BY <3>1, <3>2, <3>3, <3>4, <3>5, <2>b, <2>c DEF PassInv, InSource, AtFile
    <3> QED
      BY <3>1, <3>6, <3>7, <3>8, <2>c, <2>d DEF WorkInv
  <2>21. ASSUME NEW s \in Sources, MoveRoot(s)
         PROVE  HonestInv'
    <3>1. edits' \in {edits, edits + 1} /\ UNCHANGED <<disk, index, work, writer, enc, saved, ix>>
      BY <2>21 DEF MoveRoot
    <3>2. \A n : n \in 1..edits => n \in 1..edits'
      BY <3>1, <2>a
    <3>3. \A n : n \in 0..edits => n \in 0..edits'
      BY <3>1, <2>a
    <3>4. StampsGiven' /\ EncodingsSaved'
      BY <3>1, <3>3, <2>c DEF StampsGiven, EncodingsSaved
    <3>5. Honest(index)' /\ Honest(work)'
      BY <3>1, <3>2, <2>c DEF Honest, Readable
    <3>6. PassInv'
      BY <3>1, <3>2, <2>c DEF PassInv, Readable
    <3> QED
      BY <3>1, <3>4, <3>5, <3>6, <2>c, <2>d DEF WorkInv
  <2>22. ASSUME NEW s \in Sources, NEW p \in Paths, ViewFile(s, p) \/ Forget(s, p)
         PROVE  HonestInv'
    <3>1. UNCHANGED <<disk, index, work, writer, saved, ix, edits>>
      BY <2>22 DEF ViewFile, Forget
    <3>2. \/ disk[s][p] # NoFile /\ enc' = [enc EXCEPT ![s][p] = Encoding(disk[s][p].content)]
          \/ enc' = [enc EXCEPT ![s][p] = None]
      BY <2>22 DEF ViewFile, Forget, Present
    <3>3. EncodingsSaved'
      <4> SUFFICES ASSUME NEW r \in Sources, NEW q \in Paths, enc'[r][q] # None
                   PROVE  enc'[r][q] \in saved[r][q]
        BY <3>1 DEF EncodingsSaved
      <4>1. CASE r = s /\ q = p
        <5>1. disk[s][p] # NoFile /\ enc'[s][p] = Encoding(disk[s][p].content)
          BY <4>1, <3>2, <2>a
        <5> QED
          BY <5>1, <4>1, <2>c DEF StampsGiven
      <4>2. CASE ~(r = s /\ q = p)
        <5>1. enc'[r][q] = enc[r][q]
          BY <4>2, <3>2, <2>a
        <5> QED
          BY <5>1, <2>c DEF EncodingsSaved
      <4> QED
        BY <4>1, <4>2
    <3>4. StampsGiven' /\ Honest(index)' /\ Honest(work)' /\ PassInv' /\ WorkInv'
      BY <3>1, <2>c DEF StampsGiven, Honest, PassInv, WorkInv, Readable
    <3> QED
      BY <3>3, <3>4, <2>d
  <2>23. ASSUME NEW s \in Sources, DeleteSource(s)
         PROVE  HonestInv'
    <3> DEFINE w == Cleared(index, s)
    <3>1. /\ UNCHANGED <<disk, saved, edits, enc, ix, writer>>
          /\ \/ UNCHANGED <<index, work>>
             \/ writer = None /\ index' = w /\ work' = w
      BY <2>23 DEF DeleteSource
    <3>2. StampsGiven' /\ EncodingsSaved'
      BY <3>1, <2>c DEF StampsGiven, EncodingsSaved
    <3>3. CASE UNCHANGED <<index, work>>
      <4>1. Honest(index)' /\ Honest(work)' /\ WorkInv'
        BY <3>1, <3>3, <2>c DEF Honest, Readable, WorkInv
      <4>2. PassInv'
        BY <3>1, <3>3, <2>c DEF PassInv, Readable
      <4> QED
        BY <3>2, <4>1, <4>2, <2>d
    <3>4. CASE writer = None /\ index' = w /\ work' = w
      <4>1. Honest(w)
        <5>1. w.docs = [index.docs EXCEPT ![s] = [p \in Paths |-> NoDoc]]
          BY DEF Cleared
        <5>2. \A r \in Sources, q \in Paths : w.docs[r][q] \in {NoDoc, index.docs[r][q]}
          BY <5>1, <2>a
        <5> HIDE DEF w
        <5> QED
          BY <5>2, <2>c DEF Honest
      <4>2. \A r \in Sources, q \in Paths : w.docs[r][q] \in {NoDoc, work.docs[r][q]}
        <5>1. w.docs = [index.docs EXCEPT ![s] = [p \in Paths |-> NoDoc]] /\ work = index
          BY <3>4, <2>c DEF Cleared, WorkInv
        <5> QED
          BY <5>1, <2>a
      <4> HIDE DEF w
      <4>3. Honest(index)' /\ Honest(work)' /\ WorkInv'
        BY <3>1, <3>4, <4>1 DEF Honest, Readable, WorkInv
      <4>4. PassInv'
        BY <3>1, <3>4, <4>2, <2>b, <2>c DEF PassInv, Readable, InSource, AtFile
      <4> QED
        BY <3>2, <4>3, <4>4, <2>d
    <3> QED
      BY <3>1, <3>3, <3>4
  <2>24. CASE Crash
    <3>1. /\ UNCHANGED <<disk, saved, edits, index>> /\ work' = index /\ enc' = NothingKnown
          /\ ix'[Job] = Idle
      BY <2>24, <2>a DEF Crash
    <3>2. StampsGiven' /\ EncodingsSaved' /\ PassInv' /\ WorkInv'
      BY <3>1, <2>c, <2>i
         DEF StampsGiven, EncodingsSaved, NothingKnown, Idle, AtFile, WorkInv
    <3>3. Honest(index)' /\ Honest(work)'
      BY <3>1, <2>c DEF Honest, Readable
    <3> QED
      BY <3>2, <3>3, <2>d
  <2>25. CASE UNCHANGED vars
    <3>1. UNCHANGED <<disk, saved, edits, index, work, writer, enc, ix>>
      BY <2>25 DEF vars
    <3> QED
      BY <3>1, <2>c, <2>d
         DEF StampsGiven, EncodingsSaved, Honest, Readable, PassInv, WorkInv
  <2> QED
    BY <2>a, <2>1, <2>2, <2>3, <2>4, <2>5, <2>6, <2>7, <2>8, <2>9, <2>10, <2>11, <2>12,
       <2>13, <2>14, <2>15, <2>16, <2>17, <2>18, <2>19, <2>20, <2>21, <2>22, <2>23, <2>24,
       <2>25 DEF Next, PassStep
<1> QED
  BY <1>1, <1>2, TypeCorrect, PTL DEF Spec

\* With no ingest or reindex beside the job, a file whose mtime and size are
\* those of its row has the text of its row, or was once saved in another
\* encoding: skipping it is right.
THEOREM JobStampsHonest ==
    ASSUME Ingesters = {} PROVE Spec => []StampIsHonest
<1>1. HonestInv => StampIsHonest
  BY DEF HonestInv, Honest, StampIsHonest
<1> QED
  BY <1>1, HonestInvHolds, PTL

-----------------------------------------------------------------------------
(* One indexer at a time: no commit has a gap *)

\* A committed row that the open transaction does not have.
Lost(s, p) == index.docs[s][p] # NoDoc /\ work.docs[s][p] = NoDoc

\* Why the job may have lost it: it is still to be read, was not listed, or is
\* too big.
Excused(s, p) ==
    LET m == ix[Job]
    IN  /\ m.pc \in InSource /\ m.src = s
        /\ m.pc \notin {"clear", "cleared", "list"}
              => p \in m.left \/ p \notin m.existing \/ p \in m.tooBig

\* The job is about to write over, or has written, the row of its file.
HasRow(m) ==
    \/ m.pc \in {"detect", "read", "write"} /\ m.old # NoDoc
    \/ m.pc \in {"unlist", "enlist"}

\* The inductive invariant.
KeepInv ==
    /\ writer = None => work = index
    /\ ix[Job].kind # "reindex"
    /\ HasRow(ix[Job]) => ~Lost(ix[Job].src, ix[Job].path)
    /\ \A s \in Sources, p \in Paths : Lost(s, p) => Excused(s, p)

\* With no ingest or reindex beside the job, KeepInv holds.
LEMMA KeepInvHolds ==
    ASSUME Ingesters = {} PROVE Spec => []KeepInv
<1> USE SourceIndexAssumption
<1>1. Init => KeepInv
  BY DEF Init, KeepInv, HasRow, Lost, Idle, Threads
<1>2. TypeOK /\ HonestInv /\ KeepInv /\ [Next]_vars => KeepInv'
  <2> SUFFICES ASSUME TypeOK, HonestInv, KeepInv, [Next]_vars PROVE KeepInv'
    OBVIOUS
  <2> DEFINE m == ix[Job]
             NothingLost == \A s \in Sources, p \in Paths : ~Lost(s, p)
  <2>a. /\ index \in Tables /\ work \in Tables
        /\ index.docs \in [Sources -> [Paths -> Doc]]
        /\ work.docs \in [Sources -> [Paths -> Doc]]
        /\ ix \in [Threads -> Pass] /\ Threads = {Job}
        /\ writer \in {Job, None} /\ Job # None
    BY DEF TypeOK, Tables, Threads
  <2>b. /\ m \in Fields
        /\ m.pc \in InSource => m.src \in Sources
        /\ m.pc \in AtRow \cup AtFile => m.path \in Paths
        /\ View(Job) = work
    BY <2>a DEF Pass, View, KeepInv
  <2>c. /\ writer = None => work = index
        /\ m.kind # "reindex"
        /\ HasRow(m) => ~Lost(m.src, m.path)
        /\ \A s \in Sources, p \in Paths : Lost(s, p) => Excused(s, p)
    BY DEF KeepInv
  <2>d. m.pc \notin InSource => NothingLost
    BY <2>c DEF Excused
  <2>e. NoWrite /\ UNCHANGED index
          => /\ writer' = None => work' = index'
             /\ \A s \in Sources, p \in Paths : Lost(s, p)' <=> Lost(s, p)
    BY <2>c DEF NoWrite, Lost
  <2>f. ASSUME NEW w, Writes(Job, w)
        PROVE  work' = w /\ (writer' = None => work' = index')
    BY <2>a, <2>f DEF Writes
  \* Where nothing is lost, nothing is asked of the pass.
  <2>g. ASSUME NEW n, Go(Job, n), n.kind # "reindex", writer' = None => work' = index',
               NothingLost', n.pc \in InSource => n.src \in Sources, ~HasRow(n)
        PROVE  KeepInv'
    <3>1. ix'[Job] = n
      BY <2>a, <2>g DEF Go
    <3> QED
      BY <2>g, <3>1 DEF KeepInv
  \* The source goes on: what is lost stays excused.
  <2>h. ASSUME NEW n, Go(Job, n), n.kind = m.kind, n.pc \in InSource, n.src = m.src,
               writer' = None => work' = index',
               HasRow(n) => ~Lost(n.src, n.path)',
               \A s \in Sources, p \in Paths : Lost(s, p)' =>
                  /\ s = m.src
                  /\ n.pc \notin {"clear", "cleared", "list"}
                        => p \in n.left \/ p \notin n.existing \/ p \in n.tooBig
        PROVE  KeepInv'
    <3>1. ix'[Job] = n
      BY <2>a, <2>h DEF Go
    <3>2. \A s \in Sources, p \in Paths : Lost(s, p)' => Excused(s, p)'
      BY <2>h, <3>1 DEF Excused
    <3> QED
      BY <2>c, <2>h, <3>1, <3>2 DEF KeepInv
  \* On to the next file: the one just seen was not lost.
  <2>i. ASSUME NEW q \in Paths, NextFile(Job, q), m.pc \in AtFile,
               writer' = None => work' = index',
               \A s \in Sources, p \in Paths : Lost(s, p)' =>
                  Lost(s, p) /\ ~(s = m.src /\ p = q)
        PROVE  KeepInv'
    <3> DEFINE n == [m EXCEPT !.pc = "files", !.left = @ \ {q}, !.path = None,
                              !.stamp = 0, !.old = NoDoc, !.enc = None, !.text = None]
    <3>1. Go(Job, n)
      BY <2>i DEF NextFile
    <3>2. /\ n.pc = "files" /\ n.kind = m.kind /\ n.src = m.src
          /\ n.left = m.left \ {q} /\ n.existing = m.existing /\ n.tooBig = m.tooBig
      BY <2>b DEF Fields
    <3> HIDE DEF n
    <3>3. ASSUME NEW s \in Sources, NEW p \in Paths, Lost(s, p)'
          PROVE  s = m.src /\ (p \in n.left \/ p \notin n.existing \/ p \in n.tooBig)
      <4>1. Excused(s, p) /\ ~(s = m.src /\ p = q)
        BY <2>c, <2>i, <3>3
      <4> QED
        BY <2>i, <3>2, <4>1 DEF Excused, AtFile
    <3> QED
      BY <2>h, <2>i, <3>1, <3>2, <3>3 DEF HasRow, InSource
  \* A step with its file, or to it.
  <2>j. ASSUME NEW n, Go(Job, n), n.kind = m.kind, n.pc \in AtFile, n.src = m.src,
               m.pc \in {"files"} \cup AtFile,
               n.left = m.left, n.existing = m.existing, n.tooBig = m.tooBig,
               writer' = None => work' = index',
               HasRow(n) => ~Lost(n.src, n.path)',
               \A s \in Sources, p \in Paths : Lost(s, p)' => Lost(s, p)
        PROVE  KeepInv'
    <3>1. \A s \in Sources, p \in Paths : Lost(s, p)' =>
             s = m.src /\ (p \in n.left \/ p \notin n.existing \/ p \in n.tooBig)
      BY <2>c, <2>j DEF Excused, AtFile
    <3> QED
      BY <2>h, <2>j, <3>1 DEF InSource
  <2> HIDE DEF NothingLost
  <2>1. ASSUME NEW kind \in Kinds(Job), NEW chosen, NEW only, Start(Job, kind, chosen, only)
        PROVE  KeepInv'
    <3> DEFINE n == [Idle EXCEPT !.pc = "source", !.kind = kind, !.todo = chosen, !.only = only]
    <3>1. n.pc = "source" /\ n.kind = kind /\ kind # "reindex"
      BY DEF Idle, Kinds
    <3>2. Go(Job, n) /\ NoWrite /\ UNCHANGED index /\ m.pc = "idle"
      BY <2>1 DEF Start
    <3> HIDE DEF n
    <3>3. NothingLost'
      BY <2>d, <2>e, <3>2 DEF InSource, AtRow, AtFile, NothingLost
    <3> QED
      BY <2>e, <2>g, <3>1, <3>2, <3>3 DEF HasRow, InSource, AtRow, AtFile
  <2>2. ASSUME NEW s \in Sources, SkipMissingRoot(Job, s)
        PROVE  KeepInv'
    <3> DEFINE n == [m EXCEPT !.todo = @ \ {s}]
    <3>1. Go(Job, n) /\ NoWrite /\ UNCHANGED index /\ m.pc = "source"
      BY <2>2 DEF SkipMissingRoot
    <3>2. n.pc = m.pc /\ n.kind = m.kind
      BY <2>b DEF Fields
    <3> HIDE DEF n
    <3>3. NothingLost'
      BY <2>d, <2>e, <3>1 DEF InSource, AtRow, AtFile, NothingLost
    <3> QED
      BY <2>c, <2>e, <2>g, <3>1, <3>2, <3>3 DEF HasRow, InSource, AtRow, AtFile
  <2>3. ASSUME NEW s \in Sources, OpenSource(Job, s)
        PROVE  KeepInv'
    <3> DEFINE pc == IF m.kind = "rebuild" /\ Rows(View(Job), s) # {} THEN "clear" ELSE "list"
               n == [m EXCEPT !.pc = pc, !.src = s, !.todo = @ \ {s}]
    <3>1. Go(Job, n) /\ NoWrite /\ UNCHANGED index /\ m.pc = "source"
      BY <2>3 DEF OpenSource
    <3>2. n.pc \in {"clear", "list"} /\ n.kind = m.kind /\ n.src = s
      BY <2>b DEF Fields
    <3> HIDE DEF n
    <3>3. NothingLost'
      BY <2>d, <2>e, <3>1 DEF InSource, AtRow, AtFile, NothingLost
    <3> QED
      BY <2>c, <2>e, <2>g, <3>1, <3>2, <3>3 DEF HasRow
  <2>4. ASSUME NEW p \in Paths, ClearEntry(Job, p)
        PROVE  KeepInv'
    <3> DEFINE n == [m EXCEPT !.pc = "cleared", !.path = p]
               w == EntryDeleted(work, m.src, p)
    <3>1. Go(Job, n) /\ Writes(Job, w) /\ UNCHANGED index /\ m.pc = "clear"
      BY <2>4, <2>b DEF ClearEntry
    <3>2. n.pc = "cleared" /\ n.kind = m.kind /\ n.src = m.src
      BY <2>b DEF Fields
    <3>3. w.docs = work.docs
      BY <2>a DEF EntryDeleted, Tables
    <3> HIDE DEF n, w
    <3>4. \A s \in Sources, q \in Paths : Lost(s, q)' => Lost(s, q)
      BY <2>f, <3>1, <3>3 DEF Lost
    <3> QED
      BY <2>c, <2>f, <2>h, <3>1, <3>2, <3>4 DEF Excused, HasRow, InSource, AtRow
  <2>5. CASE ClearRow(Job)
    <3> DEFINE n == [m EXCEPT !.pc = "clear", !.path = None]
               w == RowDeleted(work, m.src, m.path)
    <3>1. /\ Go(Job, n) /\ Writes(Job, w) /\ UNCHANGED index /\ m.pc = "cleared"
          /\ m.src \in Sources /\ m.path \in Paths
      BY <2>5, <2>b DEF ClearRow, InSource, AtRow
    <3>2. n.pc = "clear" /\ n.kind = m.kind /\ n.src = m.src
      BY <2>b DEF Fields
    <3>3. Elsewhere(work, w, m.src, m.path)
      BY <2>a, <3>1, OneAtATime
    <3> HIDE DEF n, w
    <3>4. \A s \in Sources, q \in Paths : Lost(s, q)' => Lost(s, q) \/ s = m.src
      BY <2>f, <3>1, <3>3 DEF Lost, Elsewhere
    <3> QED
      BY <2>c, <2>f, <2>h, <3>1, <3>2, <3>4 DEF Excused, HasRow, InSource
  <2>6. CASE ListFiles(Job)
    <3> DEFINE files == {p \in Paths : Present(m.src, p) /\ m.only \in {None, p}}
               n == [m EXCEPT !.pc = "files", !.left = files, !.existing = files]
    <3>1. Go(Job, n) /\ m.pc \in {"list", "clear"} /\ UNCHANGED index /\ NoWrite
      BY <2>6 DEF ListFiles
    <3>2. /\ n.pc = "files" /\ n.src = m.src /\ n.kind = m.kind
          /\ n.left = n.existing
      BY <2>b DEF Fields
    <3> HIDE DEF n
    <3> QED
      BY <2>c, <2>e, <2>h, <3>1, <3>2 DEF Excused, HasRow, InSource
  <2>7. ASSUME NEW p \in Paths, StatFile(Job, p)
        PROVE  KeepInv'
    <3> DEFINE pc == IF m.kind = "rebuild" THEN "detect" ELSE "look"
               n == [m EXCEPT !.pc = pc, !.path = p, !.stamp = disk[m.src][p].stamp,
                              !.old = NoDoc]
               past == [m EXCEPT !.left = @ \ {p}, !.tooBig = @ \cup {p}]
    <3>1. /\ Go(Job, n) \/ Go(Job, past)
          /\ m.pc = "files" /\ UNCHANGED index /\ NoWrite
      BY <2>7 DEF StatFile
    <3>2. /\ n.pc \in {"detect", "look"} /\ n.src = m.src /\ n.kind = m.kind
          /\ n.left = m.left /\ n.existing = m.existing /\ n.tooBig = m.tooBig
          /\ n.old = NoDoc
      BY <2>b DEF Fields
    <3>3. /\ past.pc = m.pc /\ past.src = m.src /\ past.kind = m.kind
          /\ past.left = m.left \ {p} /\ past.existing = m.existing
          /\ past.tooBig = m.tooBig \cup {p}
      BY <2>b DEF Fields
    <3> HIDE DEF n, past
    <3>4. CASE Go(Job, n)
      BY <2>e, <2>j, <3>1, <3>2, <3>4 DEF HasRow, AtFile
    <3>5. CASE Go(Job, past)
      <4>1. \A s \in Sources, q \in Paths : Lost(s, q)' =>
               s = m.src /\ (q \in past.left \/ q \notin past.existing \/ q \in past.tooBig)
        BY <2>c, <2>e, <3>1, <3>3 DEF Excused
      <4> QED
        BY <2>e, <2>h, <3>1, <3>3, <3>5, <4>1 DEF HasRow, InSource
    <3> QED
      BY <3>1, <3>4, <3>5
  <2>8. CASE LookUp(Job)
    <3> DEFINE old == View(Job).docs[m.src][m.path]
               n == [m EXCEPT !.pc = "detect", !.old = old]
    <3>1. /\ m.pc = "look" /\ m.src \in Sources /\ m.path \in Paths
          /\ UNCHANGED index /\ NoWrite
          /\ (old # NoDoc /\ NextFile(Job, m.path)) \/ Go(Job, n)
      BY <2>8, <2>b DEF LookUp, AtFile, InSource
    <3>2. /\ n.pc = "detect" /\ n.src = m.src /\ n.path = m.path /\ n.kind = m.kind
          /\ n.left = m.left /\ n.existing = m.existing /\ n.tooBig = m.tooBig
          /\ n.old = old
      BY <2>b DEF Fields
    <3>3. old # NoDoc => ~Lost(m.src, m.path)
      BY <2>b DEF Lost
    <3> HIDE DEF n, old
    <3>4. CASE old # NoDoc /\ NextFile(Job, m.path)
      BY <2>e, <2>i, <3>1, <3>3, <3>4 DEF AtFile
    <3>5. CASE Go(Job, n)
      BY <2>e, <2>j, <3>1, <3>2, <3>3, <3>5 DEF HasRow, AtFile
    <3> QED
      BY <3>1, <3>4, <3>5
  <2>9. CASE Detect(Job)
    <3> DEFINE N(e) == [m EXCEPT !.pc = "read", !.enc = e]
    <3>1. /\ m.pc = "detect" /\ m.src \in Sources /\ m.path \in Paths
          /\ UNCHANGED index /\ NoWrite /\ \E e : Go(Job, N(e))
      BY <2>9, <2>b DEF Detect, AtFile, InSource
    <3>2. PICK e : Go(Job, N(e))
      BY <3>1
    <3> DEFINE n == N(e)
    <3>3. /\ n.pc = "read" /\ n.src = m.src /\ n.path = m.path /\ n.kind = m.kind
          /\ n.left = m.left /\ n.existing = m.existing /\ n.tooBig = m.tooBig
          /\ n.old = m.old
      BY <2>b DEF Fields
    <3>4. Go(Job, n)
      BY <3>2
    <3> HIDE DEF n
    <3> QED
      BY <2>c, <2>e, <2>j, <3>1, <3>3, <3>4 DEF HasRow, AtFile
  <2>10. CASE ReadFile(Job)
    <3> DEFINE text == Decoded(disk[m.src][m.path].content, m.enc)
               n == [m EXCEPT !.pc = "write", !.text = text]
    <3>1. /\ m.pc = "read" /\ m.src \in Sources /\ m.path \in Paths
          /\ UNCHANGED index /\ NoWrite /\ Go(Job, n)
      BY <2>10, <2>b DEF ReadFile, AtFile, InSource
    <3>2. /\ n.pc = "write" /\ n.src = m.src /\ n.path = m.path /\ n.kind = m.kind
          /\ n.left = m.left /\ n.existing = m.existing /\ n.tooBig = m.tooBig
          /\ n.old = m.old
      BY <2>b DEF Fields
    <3> HIDE DEF n
    <3> QED
      BY <2>c, <2>e, <2>j, <3>1, <3>2 DEF HasRow, AtFile
  <2>11. CASE WriteFile(Job)
    <3> DEFINE d == [content |-> m.text, stamp |-> m.stamp,
                     owner |-> WrittenOwner(m.kind, m.src)]
               n == [m EXCEPT !.pc = "unlist"]
    <3>1. /\ m.pc = "write" /\ m.src \in Sources /\ m.path \in Paths
          /\ m.stamp # 0 /\ UNCHANGED index
      BY <2>11, <2>b DEF WriteFile, InSource, AtFile, HonestInv, PassInv
    <3>2. CASE m.old # NoDoc /\ m.old.content = m.text
      <4> DEFINE w == Restamped(work, m.src, m.path, m.stamp)
      <4>1. Writes(Job, w) /\ NextFile(Job, m.path)
        BY <2>11, <2>b, <3>2 DEF WriteFile
      <4>2. \A s \in Sources, p \in Paths :
              work.docs[s][p] # NoDoc => w.docs[s][p] # NoDoc
        <5>1. CASE work.docs[m.src][m.path] = NoDoc
          BY <5>1 DEF Restamped
        <5>2. CASE work.docs[m.src][m.path] # NoDoc
          <6> DEFINE docs == [work.docs EXCEPT ![m.src][m.path].stamp = m.stamp]
          <6>1. w.docs = docs
            BY <5>2 DEF Restamped
          <6>2. \A s \in Sources, p \in Paths :
                  IF s = m.src /\ p = m.path THEN docs[s][p].stamp = m.stamp
                                             ELSE docs[s][p] = work.docs[s][p]
            BY <2>a DEF Doc
          <6>3. NoDoc.stamp = 0
            BY DEF NoDoc
          <6> HIDE DEF docs, w
          <6> QED
            BY <3>1, <6>1, <6>2, <6>3
        <5> QED
          BY <5>1, <5>2
      <4> HIDE DEF w
      <4>3. \A s \in Sources, p \in Paths : Lost(s, p)' => Lost(s, p)
        BY <2>f, <3>1, <4>1, <4>2 DEF Lost
      <4>4. ~Lost(m.src, m.path)
        BY <2>c, <3>1, <3>2 DEF HasRow
      <4> QED
        BY <2>f, <2>i, <3>1, <4>1, <4>3, <4>4 DEF AtFile
    <3>3. CASE ~(m.old # NoDoc /\ m.old.content = m.text)
      <4> DEFINE w == RowWritten(work, m.src, m.path, d)
      <4>1. Writes(Job, w) /\ Go(Job, n)
        BY <2>11, <2>b, <3>3 DEF WriteFile
      <4>2. w.docs = [work.docs EXCEPT ![m.src][m.path] = d]
        BY DEF RowWritten
      <4>3. d # NoDoc
        BY DEF NoDoc, WrittenOwner
      <4>4. /\ n.pc = "unlist" /\ n.src = m.src /\ n.path = m.path /\ n.kind = m.kind
            /\ n.left = m.left /\ n.existing = m.existing /\ n.tooBig = m.tooBig
        BY <2>b DEF Fields
      <4> HIDE DEF w, d, n
      <4>5. \A s \in Sources, p \in Paths :
              w.docs[s][p] = IF s = m.src /\ p = m.path THEN d ELSE work.docs[s][p]
        BY <4>2, <2>a
      <4>6. \A s \in Sources, p \in Paths : Lost(s, p)' => Lost(s, p)
        BY <2>f, <3>1, <4>1, <4>3, <4>5 DEF Lost
      <4>7. work'.docs[n.src][n.path] # NoDoc
        BY <2>f, <3>1, <4>1, <4>3, <4>4, <4>5
      <4>8. writer' = None => work' = index'
        BY <2>f, <4>1
      <4> QED
        BY <2>j, <3>1, <4>1, <4>4, <4>6, <4>7, <4>8 DEF AtFile, Lost
    <3> QED
      BY <3>2, <3>3
  <2>12. CASE DeleteEntry(Job)
    <3> DEFINE n == [m EXCEPT !.pc = "enlist"]
               w == EntryDeleted(work, m.src, m.path)
    <3>1. /\ m.pc = "unlist" /\ Go(Job, n) /\ Writes(Job, w) /\ UNCHANGED index
          /\ m.src \in Sources /\ m.path \in Paths
      BY <2>12, <2>b DEF DeleteEntry, InSource, AtFile
    <3>2. /\ n.pc = "enlist" /\ n.src = m.src /\ n.path = m.path /\ n.kind = m.kind
          /\ n.left = m.left /\ n.existing = m.existing /\ n.tooBig = m.tooBig
      BY <2>b DEF Fields
    <3>3. w.docs = work.docs
      BY <2>a DEF EntryDeleted, Tables
    <3> HIDE DEF n, w
    <3>4. \A s, q : Lost(s, q)' <=> Lost(s, q)
      BY <2>f, <3>1, <3>3 DEF Lost
    <3> QED
      BY <2>c, <2>f, <2>j, <3>1, <3>2, <3>4 DEF HasRow, AtFile
  <2>13. CASE InsertEntry(Job)
    <3> DEFINE e == [content |-> m.text, owner |-> WrittenOwner(m.kind, m.src)]
               w == EntryInserted(work, m.src, m.path, e)
    <3>1. /\ m.pc = "enlist" /\ NextFile(Job, m.path) /\ Writes(Job, w) /\ UNCHANGED index
          /\ m.src \in Sources /\ m.path \in Paths
      BY <2>13, <2>b DEF InsertEntry, InSource, AtFile
    <3>2. w.docs = work.docs
      BY <2>a DEF EntryInserted, Tables
    <3> HIDE DEF w
    <3>3. \A s, q : Lost(s, q)' <=> Lost(s, q)
      BY <2>f, <3>1, <3>2 DEF Lost
    <3>4. ~Lost(m.src, m.path)
      BY <2>c, <3>1 DEF HasRow
    <3> QED
      BY <2>f, <2>i, <3>1, <3>3, <3>4 DEF AtFile
  <2>14. ASSUME NEW p \in Paths, SweepRow(Job, p)
         PROVE  KeepInv'
    <3> DEFINE n == [m EXCEPT !.pc = "swept", !.path = p]
               w == RowDeleted(work, m.src, p)
    <3>1. /\ Go(Job, n) /\ Writes(Job, w) /\ UNCHANGED index /\ m.pc = "files"
          /\ m.src \in Sources /\ p \in Missing(Job)
      BY <2>14, <2>b DEF SweepRow, InSource
    <3>2. /\ n.pc = "swept" /\ n.kind = m.kind /\ n.src = m.src
          /\ n.left = m.left /\ n.existing = m.existing /\ n.tooBig = m.tooBig
      BY <2>b DEF Fields
    <3>3. Elsewhere(work, w, m.src, p)
      BY <2>a, <3>1, OneAtATime
    <3>4. p \notin m.existing
      BY <3>1 DEF Missing
    <3> HIDE DEF n, w
    <3>5. \A s \in Sources, q \in Paths : Lost(s, q)' => Lost(s, q) \/ (s = m.src /\ q = p)
      BY <2>f, <3>1, <3>3 DEF Lost, Elsewhere
    <3>6. \A s \in Sources, q \in Paths : Lost(s, q)' =>
             s = m.src /\ (q \in n.left \/ q \notin n.existing \/ q \in n.tooBig)
      BY <2>c, <3>1, <3>2, <3>4, <3>5 DEF Excused
    <3> QED
      BY <2>f, <2>h, <3>1, <3>2, <3>6 DEF HasRow, InSource, AtRow
  <2>15. CASE SweepEntry(Job)
    <3> DEFINE n == [m EXCEPT !.pc = "files", !.path = None]
               w == EntryDeleted(work, m.src, m.path)
    <3>1. Go(Job, n) /\ Writes(Job, w) /\ UNCHANGED index /\ m.pc = "swept"
      BY <2>15, <2>b DEF SweepEntry
    <3>2. /\ n.pc = "files" /\ n.kind = m.kind /\ n.src = m.src
          /\ n.left = m.left /\ n.existing = m.existing /\ n.tooBig = m.tooBig
      BY <2>b DEF Fields
    <3>3. w.docs = work.docs
      BY <2>a DEF EntryDeleted, Tables
    <3> HIDE DEF n, w
    <3>4. \A s, q : Lost(s, q)' <=> Lost(s, q)
      BY <2>f, <3>1, <3>3 DEF Lost
    <3>5. \A s \in Sources, q \in Paths : Lost(s, q)' =>
             s = m.src /\ (q \in n.left \/ q \notin n.existing \/ q \in n.tooBig)
      BY <2>c, <3>1, <3>2, <3>4 DEF Excused
    <3> QED
      BY <2>f, <2>h, <3>1, <3>2, <3>5 DEF HasRow, InSource
  <2>16. CASE LeaveSource(Job)
    <3> DEFINE n == [m EXCEPT !.pc = "source", !.src = None, !.existing = {}, !.tooBig = {}]
    <3>1. Go(Job, n) /\ Commits(Job)
      BY <2>16 DEF LeaveSource
    <3>2. n.pc = "source" /\ n.kind = m.kind
      BY <2>b DEF Fields
    <3> HIDE DEF n
    <3>3. work' = index'
      BY <2>a, <2>c, <3>1 DEF Commits, NoWrite
    <3>4. NothingLost'
      BY <3>3 DEF NothingLost, Lost
    <3> QED
      BY <2>c, <2>g, <3>1, <3>2, <3>3, <3>4 DEF HasRow, InSource, AtRow, AtFile
  <2>17. CASE Finish(Job)
    <3>1. Go(Job, Idle) /\ Commits(Job)
      BY <2>17 DEF Finish
    <3>2. Idle.pc = "idle" /\ Idle.kind = "sync"
      BY DEF Idle
    <3>3. work' = index'
      BY <2>a, <2>c, <3>1 DEF Commits, NoWrite
    <3>4. NothingLost'
      BY <3>3 DEF NothingLost, Lost
    <3> QED
      BY <2>g, <3>1, <3>2, <3>3, <3>4 DEF HasRow, InSource, AtRow, AtFile
  <2>18. CASE FileVanished(Job) \/ StepRaises(Job)
    <3>1. Abort(Job)
      BY <2>18 DEF FileVanished, StepRaises
    <3>2. Go(Job, Idle) /\ work' = index'
      BY <3>1, <2>a, <2>c DEF Abort, NoWrite
    <3>3. Idle.pc = "idle" /\ Idle.kind = "sync"
      BY DEF Idle
    <3>4. NothingLost'
      BY <3>2 DEF NothingLost, Lost
    <3> QED
      BY <2>g, <3>2, <3>3, <3>4 DEF HasRow, InSource, AtRow, AtFile
  <2>19. ASSUME NEW s \in Sources, DeleteSource(s)
         PROVE  KeepInv'
    <3>1. UNCHANGED <<ix, writer>> /\ (UNCHANGED <<index, work>> \/ index' = work')
      BY <2>19 DEF DeleteSource
    <3>2. CASE UNCHANGED <<index, work>>
      BY <3>1, <3>2, <2>c DEF KeepInv, Lost, Excused
    <3>3. CASE index' = work'
      BY <3>1, <3>3, <2>c DEF KeepInv, Lost
    <3> QED
      BY <3>1, <3>2, <3>3
  <2>20. CASE Crash
    <3>1. ix'[Job] = Idle /\ work' = index'
      BY <2>20, <2>a DEF Crash
    <3> QED
      BY <3>1 DEF KeepInv, Lost, HasRow, Idle
  <2>21. CASE UNCHANGED <<index, work, writer, ix>>
    BY <2>21, <2>c DEF KeepInv, Lost, Excused
  <2> QED
    BY <2>a, <2>1, <2>2, <2>3, <2>4, <2>5, <2>6, <2>7, <2>8, <2>9, <2>10, <2>11, <2>12,
       <2>13, <2>14, <2>15, <2>16, <2>17, <2>18, <2>19, <2>20, <2>21
       DEF Next, PassStep, EditFile, RemoveFile, MoveRoot, ViewFile, Forget, vars
<1> QED
  BY <1>1, <1>2, TypeCorrect, HonestInvHolds, PTL DEF Spec

\* A sync or rebuild never commits the loss of a document whose file it listed
\* and could index, whatever fails and whenever the process dies.
THEOREM JobKeepsDocuments ==
    ASSUME Ingesters = {} PROVE Spec => DocumentsOutliveTheirFiles
<1> USE SourceIndexAssumption
<1>1. TypeOK /\ KeepInv /\ [Next]_vars =>
        [\A s \in Sources, p \in Paths :
          index.docs[s][p] # NoDoc /\ index'.docs[s][p] = NoDoc =>
             \/ s \notin configured'
             \/ /\ ix[Job].src = s /\ ix[Job].pc = "files"
                /\ p \notin ix[Job].existing \/ p \in ix[Job].tooBig]_vars
  <2> SUFFICES ASSUME TypeOK, KeepInv, Next, NEW s \in Sources, NEW p \in Paths,
                      index.docs[s][p] # NoDoc, index'.docs[s][p] = NoDoc
               PROVE  \/ s \notin configured'
                      \/ /\ ix[Job].src = s /\ ix[Job].pc = "files"
                         /\ p \notin ix[Job].existing \/ p \in ix[Job].tooBig
    BY DEF vars
  <2> DEFINE m == ix[Job]
  <2>a. /\ index.docs \in [Sources -> [Paths -> Doc]]
        /\ Threads = {Job}
    BY DEF TypeOK, Tables, Threads
  <2>b. index' # index
    OBVIOUS
  <2>1. CASE LeaveSource(Job) \/ Finish(Job)
    <3>1. index' = work /\ m.pc \in {"files", "source"} /\ (m.pc = "files" => m.left = {})
      BY <2>1, <2>b DEF LeaveSource, Finish, Commits
    <3>2. Lost(s, p)
      BY <3>1 DEF Lost
    <3>3. Excused(s, p)
      BY <3>2 DEF KeepInv
    <3> QED
      BY <3>1, <3>3 DEF Excused, InSource, AtRow, AtFile
  <2>2. ASSUME NEW r \in Sources, DeleteSource(r)
        PROVE  s \notin configured'
    <3>1. configured' = configured \ {r} /\ index' = Cleared(index, r)
      BY <2>2, <2>b DEF DeleteSource
    <3>2. s = r
      BY <3>1, <2>a DEF Cleared
    <3> QED
      BY <3>1, <3>2
  <2>3. PassStep(Job) => LeaveSource(Job) \/ Finish(Job)
    BY <2>b
       DEF PassStep, SkipMissingRoot, OpenSource, ClearEntry, ClearRow, ListFiles, StatFile,
           LookUp, Detect, ReadFile, WriteFile, DeleteEntry, InsertEntry, SweepRow,
           SweepEntry, FileVanished, Abort
  <2> QED
    BY <2>a, <2>b, <2>1, <2>2, <2>3
       DEF Next, Start, StepRaises, Abort, EditFile, RemoveFile, MoveRoot, ViewFile, Forget,
           Crash
<1> QED
  BY <1>1, TypeCorrect, KeepInvHolds, PTL DEF Spec, DocumentsOutliveTheirFiles

=============================================================================
