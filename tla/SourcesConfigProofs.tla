------------------------- MODULE SourcesConfigProofs ------------------------
(***************************************************************************)
(* Proofs about SourcesConfig, for any threads, users, ids, operations and *)
(* libraries at the start.                                                 *)
(***************************************************************************)
EXTENDS SourcesConfig, TLAPS

-----------------------------------------------------------------------------
(* The texts the handlers make. *)

GlobalOps == {"webAdd", "webUpdate", "webDelete", "anyShare", "adminDelete", "anyDelete"}
PrivateOps == {"custom", "create", "restore", "userAdd", "userShare", "anyShare",
               "userDelete", "anyDelete", "adminDelete"}

LEMMA FileParts ==
    ASSUME NEW f \in File
    PROVE  /\ f.entries \subseteq Entry
           /\ f.deleted \subseteq Mark
           /\ f.kind \in {"whole", "blank", "garbled"}
           /\ f = [kind |-> f.kind, entries |-> f.entries, deleted |-> f.deleted]
BY DEF File, Blank

LEMMA EmptyFiles == Blank \in File
BY DEF File, Blank

LEMMA RequestParts ==
    ASSUME NEW r \in Request
    PROVE  /\ r.id \in Ids /\ r.by \in Owners /\ r.isKey \in BOOLEAN
           /\ r.op \in GlobalOps \cup PrivateOps
<1> USE SourcesConfigAssumption
<1> DEFINE Plain == [op : {"webAdd", "webUpdate", "webDelete", "custom", "anyShare", "anyDelete"},
                     id : Ids, by : {Nobody}, isKey : {FALSE}]
           Admin == [op : {"adminDelete"}, id : Ids, by : {Nobody}, isKey : BOOLEAN]
           Own == [op : {"userAdd", "userShare", "userDelete"}, id : Ids, by : Users,
                   isKey : {FALSE}]
           Default == {[op |-> o, id |-> DefaultId[u], by |-> u, isKey |-> FALSE] :
                          o \in {"create", "restore"}, u \in Users}
<1>1. r \in Plain \/ r \in Admin \/ r \in Own \/ r \in Default
  <2> HIDE DEF Plain, Admin, Own, Default
  <2>1. Request = Plain \cup Admin \cup Own \cup Default
    BY DEF Request, Plain, Admin, Own, Default
  <2> QED
    BY <2>1
<1>2. CASE r \in Default
  <2>1. PICK o \in {"create", "restore"}, u \in Users :
               r = [op |-> o, id |-> DefaultId[u], by |-> u, isKey |-> FALSE]
    BY <1>2
  <2> QED
    BY <2>1 DEF Owners, PrivateOps
<1>3. CASE r \in Plain
  BY <1>3 DEF Owners, GlobalOps, PrivateOps
<1>4. CASE r \in Admin
  BY <1>4 DEF Owners, GlobalOps
<1>5. CASE r \in Own
  BY <1>5 DEF Owners, PrivateOps
<1> HIDE DEF Plain, Admin, Own, Default
<1> QED
  BY <1>1, <1>2, <1>3, <1>4, <1>5

LEMMA LibraryType ==
    ASSUME NEW i \in Ids, NEW o \in Owners, NEW s \in BOOLEAN
    PROVE  Library(i, o, s) \in Entry
BY DEF Library, Entry

\* Replacing the entries of a text.
LEMMA Rewritten ==
    ASSUME NEW f \in File, NEW es \in SUBSET Entry
    PROVE  [f EXCEPT !.kind = "whole", !.entries = es] \in File
<1>1. f \in [kind : {"whole", "blank", "garbled"}, entries : SUBSET Entry, deleted : SUBSET Mark]
  BY FileParts
<1> QED
  BY <1>1 DEF File

LEMMA WithoutFile == ASSUME NEW f \in File, NEW es PROVE Without(f, es) \in File
<1>1. f.entries \ es \in SUBSET Entry
  BY FileParts
<1> QED
  BY <1>1, Rewritten DEF Without

LEMMA WithFile == ASSUME NEW f \in File, NEW e \in Entry PROVE With(f, e) \in File
<1>1. f.entries \cup {e} \in SUBSET Entry
  BY FileParts
<1> QED
  BY <1>1, Rewritten DEF With

LEMMA FlippedFile == ASSUME NEW f \in File, NEW e \in f.entries PROVE Flipped(f, e) \in File
<1> DEFINE flip == [e EXCEPT !.shared = ~@]
<1>1. f.entries \subseteq Entry
  BY FileParts
<1>2. flip \in Entry
  BY <1>1 DEF Entry
<1>3. (f.entries \ {e}) \cup {flip} \in SUBSET Entry
  BY <1>1, <1>2
<1> QED
  BY <1>3, Rewritten DEF Flipped

LEMMA NewGlobalFile ==
    ASSUME NEW f \in File, NEW r \in Request, r.op \in GlobalOps, NEW n \in NewGlobal(r, f)
    PROVE  n \in File
<1>1. r.id \in Ids /\ Nobody \in Owners
  BY RequestParts DEF Owners
<1>2. \A s \in BOOLEAN : With(f, Library(r.id, Nobody, s)) \in File
  BY <1>1, LibraryType, WithFile
<1>3. Named(f, r.id) \subseteq f.entries
  BY DEF Named
<1>4. CASE r.op = "webAdd"
  BY <1>2, <1>4 DEF NewGlobal, SnapshotAdded
<1>5. CASE r.op = "webUpdate"
  BY <1>5, WithoutFile DEF NewGlobal, SnapshotUpdated
<1>6. CASE r.op = "webDelete"
  BY <1>6, WithoutFile DEF NewGlobal, SnapshotDeleted
<1>7. CASE r.op = "anyShare"
  BY <1>2, <1>3, <1>7, FlippedFile DEF NewGlobal, GlobalShared
<1>8. CASE r.op = "adminDelete"
  BY <1>8, WithoutFile DEF NewGlobal, AdminDeleted
<1>9. CASE r.op = "anyDelete"
  BY <1>9, WithoutFile DEF NewGlobal, GlobalDeleted
<1> QED
  BY <1>4, <1>5, <1>6, <1>7, <1>8, <1>9 DEF GlobalOps

LEMMA NewPrivateFile ==
    ASSUME NEW f \in File, NEW r \in Request, r.op \in PrivateOps,
           NEW o \in Owners, NEW n \in NewPrivate(r, o, f)
    PROVE  n \in File
<1>1. r.id \in Ids /\ r.by \in Owners /\ Nobody \in Owners
  BY RequestParts DEF Owners
<1>2. \A w \in Owners : With(f, Library(r.id, w, FALSE)) \in File
  BY <1>1, LibraryType, WithFile
<1>3. Of(f, r.id, o) \subseteq f.entries
  BY DEF Of
<1>4. CASE r.op = "custom"
  BY <1>1, <1>2, <1>4 DEF NewPrivate, CustomAdded
<1>5. CASE r.op \in {"create", "restore"}
  BY <1>1, <1>2, <1>5 DEF NewPrivate, DefaultAdded
<1>6. CASE r.op = "userAdd"
  BY <1>1, <1>2, <1>6 DEF NewPrivate, UserAdded
<1>7. CASE r.op \in {"userShare", "anyShare"}
  BY <1>3, <1>7, FlippedFile DEF NewPrivate, PrivateShared
<1>8. CASE r.op = "userDelete"
  BY <1>8, WithoutFile DEF NewPrivate, UserDeleted
<1>9. CASE r.op = "anyDelete"
  BY <1>9, WithoutFile DEF NewPrivate, AnyDeleted
<1>10. CASE r.op = "adminDelete"
  BY <1>10, WithoutFile DEF NewPrivate, AdminDeleted
<1> QED
  BY <1>4, <1>5, <1>6, <1>7, <1>8, <1>9, <1>10 DEF PrivateOps

\* Whatever is left of two texts, it is a file of entries and marks.
LEMMA MixedFile ==
    ASSUME NEW f \in File, NEW g \in File
    PROVE  Shambles(f, g) \in File /\ Mixtures(f, g) \subseteq File
<1>1. /\ f.entries \subseteq Entry /\ g.entries \subseteq Entry
      /\ f.deleted \subseteq Mark /\ g.deleted \subseteq Mark
  BY FileParts
<1>2. \A e \in Entry : Again(e) \in Entry
  BY DEF Again, Entry
<1>3. Pieces(f, g) \subseteq Entry
  BY <1>1, <1>2 DEF Pieces
<1>4. Shambles(f, g) \in File
  BY <1>1, <1>3 DEF Shambles, File
<1>5. \A d, e \in Entry, o \in Owners : Joint(d, e, o) \in Entry
  BY DEF Joint, Entry
<1>6. \A joint \in Joints(f, g) : joint \subseteq Entry
  BY <1>1, <1>5 DEF Joints
<1>7. ASSUME NEW es \in SUBSET Pieces(f, g), NEW joint \in Joints(f, g),
             NEW marks \in {f.deleted, g.deleted, f.deleted \cup g.deleted}
      PROVE  [kind |-> "whole", entries |-> es \cup joint, deleted |-> marks] \in File
  BY <1>1, <1>3, <1>6, <1>7 DEF File
<1>8. Mixtures(f, g) \subseteq File
  <2>1. ASSUME NEW n \in Mixtures(f, g) PROVE n \in File
    <3>1. PICK es \in SUBSET Pieces(f, g), joint \in Joints(f, g),
               marks \in {f.deleted, g.deleted, f.deleted \cup g.deleted} :
            n = [kind |-> "whole", entries |-> es \cup joint, deleted |-> marks]
      BY <2>1 DEF Mixtures
    <3> QED
      BY <1>7, <3>1
  <2> QED
    BY <2>1
<1> QED
  BY <1>4, <1>8

-----------------------------------------------------------------------------
(* The invariant, in the three parts the steps disturb separately. *)

Place ==
    [pc : {"idle", "resolve", "check", "global", "private", "tombstone",
           "truncate", "fill", "reload"},
     req : Request \cup {NoRequest}, target : Owners,
     file : {"none", "global", "private"}, text : File]

\* What a thread on its way through a handler holds: a request the step is one of,
\* and, once it has read a file, the name of that file.
Holds(a) ==
    /\ a.pc # "idle" => a.req \in Request
    /\ a.pc = "resolve" => a.req.op \in {"userShare", "userDelete", "anyShare", "anyDelete"}
    /\ a.pc = "check" => a.req.op = "restore"
    /\ a.pc = "global" => a.req.op \in GlobalOps
    /\ a.pc = "private" => a.req.op \in PrivateOps
    /\ a.pc \in {"truncate", "fill"} => a.file \in {"global", "private"}

Seats == at \in [Threads -> Place] /\ \A h \in Threads : Holds(at[h])

Texts ==
    /\ global \in File /\ private \in File
    /\ writable \in BOOLEAN /\ made \in Nat
    /\ since \in [global : SUBSET File, private : SUBSET File]
    /\ global \in since.global /\ private \in since.private

Fresh(c, seen) == ~c.old => \A n \in seen : c[n] \in since[n]

Lists ==
    /\ cache \in Copy /\ Fresh(cache, {"global", "private"})
    /\ load \in [Threads -> [pc : {"none", "global", "private", "store", "done", "raised"},
                             copy : Copy]]
    /\ \A t \in Threads :
          /\ load[t].pc = "private" => Fresh(load[t].copy, {"global"})
          /\ load[t].pc \in {"store", "done"} => Fresh(load[t].copy, {"global", "private"})

ConfigInv == Texts /\ Seats /\ Lists

LEMMA ConfigInit == Init => ConfigInv
<1> USE SourcesConfigAssumption
<1>1. /\ Idle \in Place /\ Holds(Idle)
      /\ NoCopy \in Copy /\ NoCopy.old
  BY EmptyFiles DEF Idle, Place, Holds, NoCopy, Copy, Owners
<1>2. ASSUME NEW es \in SUBSET Entry
      PROVE  Whole(es) \in File
  BY <1>2, Rewritten, EmptyFiles DEF Whole
<1>3. Shipped \in SUBSET Entry /\ Kept \in SUBSET Entry
  BY DEF Entry, Owners
<1>4. Whole(Shipped) \in File /\ Whole(Kept) \in File
  BY <1>2, <1>3
<1>5. Init => Texts
  BY <1>4 DEF Init, Texts
<1>6. Init => Seats
  BY <1>1 DEF Init, Seats
<1>7. Init => Lists
  BY <1>1 DEF Init, Lists, Fresh, NoLoad
<1> QED
  BY <1>5, <1>6, <1>7 DEF ConfigInv

\* A thread turns to what it may hold.
LEMMA Turned ==
    ASSUME Seats, NEW h \in Threads, NEW a \in Place, Holds(a), Become(h, a)
    PROVE  Seats'
BY DEF Become, Seats

LEMMA Finished == ASSUME Seats, NEW h \in Threads, Become(h, Idle) PROVE Seats'
<1>1. Idle \in Place /\ Holds(Idle)
  BY EmptyFiles DEF Idle, Place, Holds, Owners
<1> QED
  BY <1>1, Turned

\* The thread's record with another step, and nothing else changed.
LEMMA GoesOn ==
    ASSUME Seats, NEW h \in Threads, NEW pc \in {"check", "global", "private", "tombstone", "reload"},
           at[h].pc # "idle",
           pc = "check" => at[h].req.op = "restore",
           pc = "global" => at[h].req.op \in GlobalOps,
           pc = "private" => at[h].req.op \in PrivateOps,
           Goto(h, pc)
    PROVE  Seats'
<1> DEFINE a == [at[h] EXCEPT !.pc = pc]
<1>1. at[h] \in Place /\ Holds(at[h])
  BY DEF Seats
<1>2. a \in Place /\ a.pc = pc /\ a.req = at[h].req
  BY <1>1 DEF Place
<1>3. Holds(a)
  BY <1>1, <1>2 DEF Holds
<1> QED
  BY <1>2, <1>3, Turned DEF Goto

\* A thread that has made the text it will write.
LEMMA Wrote ==
    ASSUME Seats, NEW h \in Threads, at[h].pc # "idle",
           NEW n \in {"global", "private"}, NEW f \in File, Makes(h, n, f)
    PROVE  Seats'
<1> DEFINE a == [at[h] EXCEPT !.pc = "truncate", !.file = n, !.text = f]
<1>1. at[h] \in Place /\ Holds(at[h])
  BY DEF Seats
<1>2. a \in Place /\ a.pc = "truncate" /\ a.req = at[h].req /\ a.file = n /\ a.text = f
  BY <1>1 DEF Place
<1>3. Holds(a)
  BY <1>1, <1>2 DEF Holds
<1> QED
  BY <1>2, <1>3, Turned DEF Makes

-----------------------------------------------------------------------------
(* The handlers keep what the threads hold. *)

LEMMA AskKeeps == ASSUME Seats, NEW h \in Threads, Ask(h) PROVE Seats'
<1>1. PICK r \in Request :
        Become(h, [Idle EXCEPT !.pc = FirstStep(r.op), !.req = r, !.target = r.by])
  BY DEF Ask
<1> DEFINE a == [Idle EXCEPT !.pc = FirstStep(r.op), !.req = r, !.target = r.by]
<1>2. r.by \in Owners
  BY RequestParts
<1>3. r.op \in GlobalOps \cup PrivateOps
  BY RequestParts
<1>4. /\ FirstStep(r.op) \in {"resolve", "check", "private", "global"}
      /\ FirstStep(r.op) = "resolve" =>
            r.op \in {"userShare", "userDelete", "anyShare", "anyDelete"}
      /\ FirstStep(r.op) = "check" => r.op = "restore"
      /\ FirstStep(r.op) = "private" => r.op \in PrivateOps
      /\ FirstStep(r.op) = "global" => r.op \in GlobalOps
  BY <1>3 DEF FirstStep, GlobalOps, PrivateOps
<1>5. a \in Place /\ a.pc = FirstStep(r.op) /\ a.req = r
  BY <1>2, <1>4, EmptyFiles DEF Idle, Place
<1>6. Holds(a)
  BY <1>4, <1>5 DEF Holds
<1> QED
  BY <1>1, <1>5, <1>6, Turned

LEMMA ResolveKeeps == ASSUME Texts, Seats, Lists, NEW h \in Threads, Resolve(h) PROVE Seats'
<1> DEFINE r == at[h].req
           copy == IF load[h].pc = "none" THEN cache ELSE load[h].copy
<1>1. /\ at[h] \in Place /\ at[h].pc = "resolve" /\ r \in Request
      /\ r.op \in {"userShare", "userDelete", "anyShare", "anyDelete"}
  BY DEF Resolve, Seats, Holds
<1>2. CASE Become(h, Idle)
  BY <1>2, Finished
<1>3. CASE Goto(h, "private") /\ r.op \notin {"anyShare", "anyDelete"}
  BY <1>1, <1>3, GoesOn DEF PrivateOps
<1>4. CASE /\ r.op \in {"anyShare", "anyDelete"}
           /\ \E e \in First(copy, r.id) :
                Become(h, [at[h] EXCEPT !.target = e.owner,
                             !.pc = IF e.owner = Nobody THEN "global" ELSE "private"])
  <2>1. PICK e \in First(copy, r.id) :
                Become(h, [at[h] EXCEPT !.target = e.owner,
                             !.pc = IF e.owner = Nobody THEN "global" ELSE "private"])
    BY <1>4
  <2> DEFINE pc == IF e.owner = Nobody THEN "global" ELSE "private"
             a == [at[h] EXCEPT !.target = e.owner, !.pc = pc]
  <2>2. e.owner \in Owners
    <3>1. copy \in Copy
      BY DEF Lists
    <3>2. copy.global.entries \subseteq Entry /\ copy.private.entries \subseteq Entry
      BY <3>1, FileParts DEF Copy
    <3>3. e \in Entry
      BY <3>2 DEF First, Parsed
    <3> QED
      BY <3>3 DEF Entry
  <2>3. a \in Place /\ a.pc \in {"global", "private"} /\ a.req = r
    BY <1>1, <2>2 DEF Place
  <2>4. Holds(a)
    BY <1>1, <1>4, <2>3 DEF Holds, GlobalOps, PrivateOps
  <2> QED
    BY <2>1, <2>3, <2>4, Turned
<1> QED
  BY <1>2, <1>3, <1>4 DEF Resolve

LEMMA CheckKeeps == ASSUME Seats, NEW h \in Threads, CheckDefault(h) PROVE Seats'
<1>1. at[h].pc = "check" /\ at[h].req.op \in PrivateOps
  BY DEF CheckDefault, Seats, Holds, PrivateOps
<1> QED
  BY <1>1, GoesOn DEF CheckDefault

LEMMA EditGlobalKeeps == ASSUME Texts, Seats, NEW h \in Threads, EditGlobal(h) PROVE Seats'
<1> DEFINE r == at[h].req
<1>1. at[h].pc = "global" /\ r \in Request /\ r.op \in GlobalOps
  BY DEF EditGlobal, Seats, Holds
<1>2. CASE Become(h, Idle)
  BY <1>2, Finished
<1>3. CASE Goto(h, "private") /\ r.op \in {"adminDelete", "anyDelete"}
  BY <1>1, <1>3, GoesOn DEF PrivateOps
<1>4. CASE Goto(h, "tombstone")
  BY <1>1, <1>4, GoesOn
<1>5. CASE \E f \in NewGlobal(r, global) : Makes(h, "global", f)
  <2>1. PICK f \in NewGlobal(r, global) : Makes(h, "global", f)
    BY <1>5
  <2>2. f \in File
    BY <1>1, NewGlobalFile DEF Texts
  <2> QED
    BY <1>1, <2>1, <2>2, Wrote
<1> QED
  BY <1>2, <1>3, <1>4, <1>5 DEF EditGlobal, FindsNothing

LEMMA EditPrivateKeeps == ASSUME Texts, Seats, NEW h \in Threads, EditPrivate(h) PROVE Seats'
<1> DEFINE r == at[h].req
<1>1. /\ at[h].pc = "private" /\ r \in Request /\ r.op \in PrivateOps
      /\ at[h].target \in Owners
  BY DEF EditPrivate, Seats, Holds, Place
<1>2. CASE Become(h, Idle)
  BY <1>2, Finished
<1>3. CASE Goto(h, "reload")
  BY <1>1, <1>3, GoesOn
<1>4. CASE \E f \in NewPrivate(r, at[h].target, private) : Makes(h, "private", f)
  <2>1. PICK f \in NewPrivate(r, at[h].target, private) : Makes(h, "private", f)
    BY <1>4
  <2>2. f \in File
    BY <1>1, NewPrivateFile DEF Texts
  <2> QED
    BY <1>1, <2>1, <2>2, Wrote
<1> QED
  BY <1>2, <1>3, <1>4 DEF EditPrivate, FindsNothing

LEMMA MarkKeeps == ASSUME Texts, Seats, NEW h \in Threads, MarkDeleted(h) PROVE Seats'
<1> DEFINE m == [id |-> at[h].req.id, isKey |-> at[h].req.isKey]
           f == [private EXCEPT !.kind = "whole", !.deleted = @ \cup {m}]
<1>1. at[h].pc = "tombstone" /\ m \in Mark
  BY RequestParts DEF MarkDeleted, Seats, Holds, Mark
<1>2. private \in [kind : {"whole", "blank", "garbled"}, entries : SUBSET Entry,
                   deleted : SUBSET Mark]
  BY FileParts DEF Texts
<1>3. f \in File
  BY <1>1, <1>2 DEF File
<1>4. CASE Become(h, Idle)
  BY <1>4, Finished
<1>5. CASE Makes(h, "private", f)
  <2> HIDE DEF f
  <2> QED
    BY <1>1, <1>3, <1>5, Wrote
<1> QED
  BY <1>4, <1>5 DEF MarkDeleted, Makes

-----------------------------------------------------------------------------
(* The steps that change the files. *)

\* A text for the file the thread writes.
LEMMA PutKeeps ==
    ASSUME Texts, NEW h \in Threads, at[h].file \in {"global", "private"}, NEW f \in File,
           Put(h, f), UNCHANGED <<writable, made>>
    PROVE  /\ Texts'
           /\ since.global \subseteq since'.global /\ since.private \subseteq since'.private
<1>1. CASE at[h].file = "global"
  BY <1>1 DEF Texts, Put
<1>2. CASE at[h].file = "private"
  BY <1>2 DEF Texts, Put
<1> QED
  BY <1>1, <1>2

LEMMA TruncateKeeps ==
    ASSUME Texts, Seats, NEW h \in Threads, Truncate(h)
    PROVE  /\ Texts' /\ Seats'
           /\ since.global \subseteq since'.global /\ since.private \subseteq since'.private
<1> DEFINE a == [at[h] EXCEPT !.pc = "fill"]
<1>1. at[h] \in Place /\ Holds(at[h]) /\ at[h].pc = "truncate"
  BY DEF Truncate, Seats
<1>2. at[h].file \in {"global", "private"}
  BY <1>1 DEF Holds
<1>3. a \in Place /\ a.pc = "fill" /\ a.req = at[h].req /\ a.file = at[h].file /\ a.text = at[h].text
  BY <1>1 DEF Place
<1>4. Holds(a)
  BY <1>1, <1>3 DEF Holds
<1>5. Seats'
  BY <1>3, <1>4, Turned DEF Truncate, Goto
<1> QED
  BY <1>2, <1>5, EmptyFiles, PutKeeps DEF Truncate

LEMMA FillKeeps ==
    ASSUME Texts, Seats, NEW h \in Threads, Fill(h)
    PROVE  /\ Texts' /\ Seats'
           /\ since.global \subseteq since'.global /\ since.private \subseteq since'.private
<1> DEFINE a == [at[h] EXCEPT !.pc = "reload", !.file = "none", !.text = Blank]
<1>1. at[h] \in Place /\ Holds(at[h]) /\ at[h].pc = "fill"
  BY DEF Fill, Seats
<1>2. PICK f \in {at[h].text, Shambles(at[h].text, Now(h))} \cup Mixtures(at[h].text, Now(h)) :
        Put(h, f)
  BY DEF Fill
<1>3. at[h].file \in {"global", "private"} /\ f \in File
  <2>1. at[h].text \in File /\ Now(h) \in File
    BY <1>1 DEF Place, Now, Texts
  <2> QED
    BY <1>1, <1>2, <2>1, MixedFile DEF Holds
<1>4. a \in Place /\ a.pc = "reload" /\ a.req = at[h].req
  BY <1>1, EmptyFiles DEF Place
<1>5. Holds(a)
  BY <1>1, <1>4 DEF Holds
<1>6. Seats'
  BY <1>4, <1>5, Turned DEF Fill
<1> QED
  BY <1>2, <1>3, <1>6, PutKeeps DEF Fill

-----------------------------------------------------------------------------
(* The steps of the cached list. *)

\* What is fresh stays so while no bucket ends.
LEMMA ListsStay ==
    ASSUME Lists, UNCHANGED <<cache, load>>,
           since.global \subseteq since'.global, since.private \subseteq since'.private
    PROVE  Lists'
BY DEF Lists, Fresh

\* A call that begins or ends.
LEMMA CallKeeps ==
    ASSUME Lists, UNCHANGED since, NEW t \in Threads,
           cache' \in {cache, NoCopy},
           \/ StartLoad(t)
           \/ load' = [load EXCEPT ![t] = NoLoad]
           \/ UNCHANGED load
    PROVE  Lists'
<1>1. NoCopy \in Copy /\ NoCopy.old
  BY EmptyFiles DEF NoCopy, Copy
<1>2. [NoCopy EXCEPT !.old = FALSE] \in Copy
  BY <1>1 DEF Copy
<1>3. Fresh(NoCopy, {"global", "private"})'
  BY <1>1 DEF Fresh
<1>4. cache' \in Copy /\ Fresh(cache, {"global", "private"})'
  BY <1>1 DEF Lists, Fresh
<1>5. CASE UNCHANGED load
  BY <1>4, <1>5 DEF Lists, Fresh
<1>6. ASSUME NEW l, load' = [load EXCEPT ![t] = l], l.pc \in {"none", "global"},
             l \in [pc : {"none", "global", "private", "store", "done", "raised"}, copy : Copy]
      PROVE  Lists'
  BY <1>4, <1>6 DEF Lists, Fresh
<1>7. CASE StartLoad(t)
  <2> DEFINE l == [pc |-> "global", copy |-> [NoCopy EXCEPT !.old = FALSE]]
  <2>1. l \in [pc : {"none", "global", "private", "store", "done", "raised"}, copy : Copy]
    BY <1>2
  <2> QED
    BY <1>6, <1>7, <2>1 DEF StartLoad
<1>8. CASE load' = [load EXCEPT ![t] = NoLoad]
  BY <1>1, <1>6, <1>8 DEF NoLoad
<1> QED
  BY <1>5, <1>7, <1>8

LEMMA LoadGlobalKeeps == ASSUME Texts, Lists, NEW t \in Threads, LoadGlobal(t) PROVE Lists'
<1> DEFINE c == [load[t].copy EXCEPT !.global = global]
<1>1. load[t].copy \in Copy
  BY DEF Lists
<1>2. c \in Copy /\ c.global = global
  BY <1>1 DEF Copy, Texts
<1>3. Fresh(c, {"global"})
  BY <1>2 DEF Fresh, Texts
<1>4. NoCopy \in Copy
  BY EmptyFiles DEF NoCopy, Copy
<1>5. PICK l \in {[pc |-> "raised", copy |-> NoCopy], NoLoad, [pc |-> "private", copy |-> c]} :
         load' = [load EXCEPT ![t] = l]
  BY DEF LoadGlobal, Raised, Returned
<1>6. l \in [pc : {"none", "private", "raised"}, copy : Copy]
  BY <1>2, <1>4, <1>5 DEF NoLoad
<1>7. l.pc = "private" => Fresh(l.copy, {"global"})
  BY <1>3, <1>5 DEF NoLoad
<1>8. UNCHANGED <<cache, since>>
  BY DEF LoadGlobal, Files
<1> HIDE DEF c
<1> QED
  BY <1>5, <1>6, <1>7, <1>8 DEF Lists, Fresh

LEMMA LoadPrivateKeeps == ASSUME Texts, Lists, NEW t \in Threads, LoadPrivate(t) PROVE Lists'
<1> DEFINE c == [load[t].copy EXCEPT !.private = private]
<1>1. load[t].copy \in Copy /\ Fresh(load[t].copy, {"global"})
  BY DEF Lists, LoadPrivate
<1>2. /\ c \in Copy /\ c.private = private
      /\ c.global = load[t].copy.global /\ c.old = load[t].copy.old
  BY <1>1 DEF Copy, Texts
<1>3. Fresh(c, {"global", "private"})
  BY <1>1, <1>2 DEF Fresh, Texts
<1>4. NoCopy \in Copy
  BY EmptyFiles DEF NoCopy, Copy
<1>5. PICK l \in {[pc |-> "raised", copy |-> NoCopy], NoLoad, [pc |-> "store", copy |-> c]} :
         load' = [load EXCEPT ![t] = l]
  BY DEF LoadPrivate, Raised, Returned
<1> HIDE DEF c
<1> QED
  BY <1>2, <1>3, <1>4, <1>5 DEF LoadPrivate, Files, Lists, Fresh, NoLoad

LEMMA StoreListKeeps == ASSUME Lists, NEW t \in Threads, StoreList(t) PROVE Lists'
<1>1. load[t].copy \in Copy /\ Fresh(load[t].copy, {"global", "private"})
  BY DEF Lists, StoreList
<1>2. cache' \in {cache, load[t].copy}
  BY DEF StoreList
<1>3. NoCopy \in Copy
  BY EmptyFiles DEF NoCopy, Copy
<1>4. PICK l \in {[pc |-> "done", copy |-> load[t].copy], NoLoad} : load' = [load EXCEPT ![t] = l]
  BY DEF StoreList, Returned
<1> QED
  BY <1>1, <1>2, <1>3, <1>4 DEF StoreList, Files, Lists, Fresh, NoLoad

LEMMA NextBucketKeeps == ASSUME Texts, Lists, NextBucket PROVE Texts' /\ Lists'
<1>1. Texts'
  BY DEF NextBucket, Listing, Texts
<1>2. \A c \in Copy : [c EXCEPT !.old = TRUE] \in Copy /\ [c EXCEPT !.old = TRUE].old
  BY DEF Copy
<1>3. cache' \in Copy /\ cache'.old
  BY <1>2 DEF NextBucket, Lists
<1>4. ASSUME NEW t \in Threads
      PROVE  /\ load'[t] \in [pc : {"none", "global", "private", "store", "done", "raised"},
                              copy : Copy]
             /\ load'[t].copy.old
  <2>1. load[t] \in [pc : {"none", "global", "private", "store", "done", "raised"}, copy : Copy]
    BY DEF Lists
  <2>2. load'[t] = [load[t] EXCEPT !.copy = [load[t].copy EXCEPT !.old = TRUE]]
    BY DEF NextBucket
  <2> QED
    BY <1>2, <2>1, <2>2
<1>5. load' = [t \in Threads |-> load'[t]]
  BY DEF NextBucket
<1> QED
  BY <1>1, <1>3, <1>4, <1>5 DEF Lists, Fresh

LEMMA ConfigStep == ConfigInv /\ [Next]_vars => ConfigInv'
<1> SUFFICES ASSUME Texts, Seats, Lists, [Next]_vars PROVE Texts' /\ Seats' /\ Lists'
  BY DEF ConfigInv
<1>1. ASSUME NEW h \in Threads, Ask(h) PROVE Texts' /\ Seats' /\ Lists'
  <2>1. made' \in Nat /\ UNCHANGED <<global, private, writable, since, cache>>
    BY <1>1 DEF Ask, Config, Texts
  <2>2. StartLoad(h) \/ UNCHANGED load
    BY <1>1 DEF Ask
  <2>3. Texts'
    BY <2>1 DEF Texts
  <2>4. Lists'
    BY <2>1, <2>2, CallKeeps
  <2> QED
    BY <1>1, <2>3, <2>4, AskKeeps
<1>2. ASSUME NEW h \in Threads, Resolve(h) \/ ResolveMiss(h) PROVE Texts' /\ Seats' /\ Lists'
  <2>1. Seats'
    BY <1>2, ResolveKeeps DEF ResolveMiss, Seats
  <2> QED
    BY <1>2, <2>1, CallKeeps DEF Resolve, ResolveMiss, Config, Texts
<1>3. ASSUME NEW h \in Threads,
             CheckDefault(h) \/ EditGlobal(h) \/ EditPrivate(h) \/ MarkDeleted(h)
      PROVE  Texts' /\ Seats' /\ Lists'
  <2>1. Seats'
    BY <1>3, CheckKeeps, EditGlobalKeeps, EditPrivateKeeps, MarkKeeps
  <2>2. UNCHANGED <<Config, cache, load, made>>
    BY <1>3 DEF CheckDefault, EditGlobal, EditPrivate, MarkDeleted
  <2> QED
    BY <2>1, <2>2, ListsStay DEF Config, Texts
<1>4. ASSUME NEW h \in Threads, Truncate(h) \/ Fill(h) PROVE Texts' /\ Seats' /\ Lists'
  <2>1. UNCHANGED <<cache, load>>
    BY <1>4 DEF Truncate, Fill
  <2> QED
    BY <1>4, <2>1, TruncateKeeps, FillKeeps, ListsStay
<1>5. ASSUME NEW h \in Threads, Reload(h) PROVE Texts' /\ Seats' /\ Lists'
  BY <1>5, Finished, CallKeeps DEF Reload, Config, Texts
<1>6. ASSUME NEW t \in Threads, ReadList(t) PROVE Texts' /\ Seats' /\ Lists'
  BY <1>6, CallKeeps DEF ReadList, Files, Listing, Texts, Seats
<1>7. ASSUME NEW t \in Threads, Loading(t) PROVE Texts' /\ Seats' /\ Lists'
  <2>1. UNCHANGED <<Files, Listing>>
    BY <1>7 DEF Loading, LoadGlobal, LoadPrivate, StoreList
  <2>2. Texts' /\ Seats'
    BY <2>1 DEF Files, Listing, Texts, Seats
  <2> QED
    BY <1>7, <2>2, LoadGlobalKeeps, LoadPrivateKeeps, StoreListKeeps DEF Loading
<1>8. CASE NextBucket
  BY <1>8, NextBucketKeeps DEF NextBucket, Listing, Seats
<1>9. CASE UNCHANGED vars
  BY <1>9 DEF vars, Texts, Seats, Lists, Fresh
<1>10. ASSUME NEW h \in Threads, Handling(h) PROVE Texts' /\ Seats' /\ Lists'
  BY <1>2, <1>3, <1>4, <1>5, <1>10 DEF Handling
<1> QED
  BY <1>1, <1>6, <1>7, <1>8, <1>9, <1>10 DEF Next

LEMMA ConfigAlways == Spec => []ConfigInv
BY ConfigInit, ConfigStep, PTL DEF Spec

-----------------------------------------------------------------------------
(* Theorems. *)

\* Every variable keeps its type: what a handler writes is a file a handler can read.
THEOREM TypeCorrect == Spec => []TypeOK
<1>1. ConfigInv => TypeOK
  BY DEF ConfigInv, Texts, Seats, Place, Lists, TypeOK
<1> QED
  BY <1>1, ConfigAlways, PTL

\* The cached list is never older than its bucket.
THEOREM CacheIsOfThisBucket == Spec => []StaleAtMostOneBucket
<1>1. ConfigInv => StaleAtMostOneBucket
  BY DEF ConfigInv, Lists, Fresh, Hit, StaleAtMostOneBucket
<1> QED
  BY <1>1, ConfigAlways, PTL

\* Taking back a share is seen by everybody within a bucket.
THEOREM UnsharedIsHidden == Spec => []UnsharedWithinABucket
<1>1. ASSUME ConfigInv, Hit, NEW u \in Users, NEW e \in ListedFor(u), e.owner # u
      PROVE  \E f \in since.global \cup since.private :
                \E d \in f.entries : d.id = e.id /\ d.owner = e.owner /\ d.shared
  <2>1. e.shared /\ e \in cache.global.entries \cup cache.private.entries
    BY <1>1 DEF ListedFor, Parsed
  <2>2. cache.global \in since.global /\ cache.private \in since.private
    BY <1>1 DEF ConfigInv, Lists, Fresh, Hit
  <2> QED
    BY <2>1, <2>2
<1>2. ConfigInv => UnsharedWithinABucket
  BY <1>1 DEF UnsharedWithinABucket
<1> QED
  BY <1>2, ConfigAlways, PTL

=============================================================================
