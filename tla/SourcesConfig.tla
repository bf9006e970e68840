---------------------------- MODULE SourcesConfig ---------------------------
(***************************************************************************)
(* The configured libraries: sources.yaml, user_sources.yaml and the list  *)
(* load_sources keeps of both.  Every handler that adds, shares or deletes *)
(* a library reads one of the files, edits what it read and writes the     *)
(* whole file back, in a thread of its own and under no lock.  The parsed  *)
(* list is cached under the number of the current 30-second bucket; a      *)
(* handler clears the cache after its write.                               *)
(*                                                                         *)
(* write_text truncates and then writes, so a reader can find the file     *)
(* blank, and of two texts written over each other pieces of both can be   *)
(* left: a text that YAML refuses to parse ("garbled"), or one that it     *)
(* reads, with libraries doubled, cut or mixed up.  The writing of one     *)
(* text is one step: that a reader can also meet the first part of it,     *)
(* when it is longer than one write of Python's buffer, is left out.       *)
(*                                                                         *)
(* An entry is its id, its owner, its shared flag and a number that tells  *)
(* entries with one id apart: the github and the local one of a pair, or   *)
(* an entry that a mixed-up text holds twice.  The order of the entries is *)
(* left open: a handler that stops at the first one it finds takes any.    *)
(* The index rows a deletion clears are those of SourceIndex.              *)
(***************************************************************************)
EXTENDS Naturals

CONSTANTS
    Threads,      \* threads of the server's pool
    Users,        \* members
    Nobody,       \* the owner of a global library
    Ids,          \* library ids
    DefaultId,    \* the id "<user>-default" of each user
    Expired,      \* users deleted more than 30 days ago
    Shipped,      \* the libraries of sources.yaml at the start
    Kept,         \* the libraries of user_sources.yaml at the start
    Ops,          \* the operations requested
    MaxRequests   \* bound: requests that change the files

ASSUME SourcesConfigAssumption ==
    /\ Nobody \notin Users
    /\ DefaultId \in [Users -> Ids]
    /\ Expired \subseteq Users
    /\ MaxRequests \in Nat
    /\ Ops \subseteq {"webAdd", "webUpdate", "webDelete", "custom", "create", "restore",
                      "adminDelete", "anyShare", "anyDelete",
                      "userAdd", "userShare", "userDelete"}
    /\ Shipped \subseteq [id : Ids, owner : {Nobody}, shared : BOOLEAN, number : {1, 2}]
    /\ Kept \subseteq [id : Ids, owner : Users \cup {Nobody}, shared : BOOLEAN, number : {1, 2}]

VARIABLES
    global,     \* sources.yaml
    private,    \* user_sources.yaml
    writable,   \* sources.yaml can be written
    cache,      \* what _load_sources_cached remembers
    at,         \* the request each thread serves
    load,       \* the call of _load_sources_cached each thread is in
    since,      \* history: the texts the files had during this bucket
    made        \* requests made

vars == <<global, private, writable, cache, at, load, since, made>>

Owners == Users \cup {Nobody}
Entry == [id : Ids, owner : Owners, shared : BOOLEAN, number : {1, 2}]

\* An element of "_deleted": the request's text, an id or a sync key "id:type".
Mark == [id : Ids, isKey : BOOLEAN]
Blank == [kind |-> "blank", entries |-> {}, deleted |-> {}]

\* Of a garbled text, the entries and marks are those there are pieces of.
File == [kind : {"whole", "garbled"}, entries : SUBSET Entry, deleted : SUBSET Mark] \cup {Blank}
Whole(es) == [Blank EXCEPT !.kind = "whole", !.entries = es]

Request ==
    [op : {"webAdd", "webUpdate", "webDelete", "custom", "anyShare", "anyDelete"},
     id : Ids, by : {Nobody}, isKey : {FALSE}]
    \cup [op : {"adminDelete"}, id : Ids, by : {Nobody}, isKey : BOOLEAN]
    \cup [op : {"userAdd", "userShare", "userDelete"}, id : Ids, by : Users, isKey : {FALSE}]
    \cup {[op |-> o, id |-> DefaultId[u], by |-> u, isKey |-> FALSE] :
             o \in {"create", "restore"}, u \in Users}

\* The pair of texts a list was parsed from, and whether its bucket is over.
Copy == [global : File, private : File, old : BOOLEAN]
NoCopy == [global |-> Blank, private |-> Blank, old |-> TRUE]

NoRequest == [op |-> "none"]
Idle == [pc |-> "idle", req |-> NoRequest, target |-> Nobody,
         file |-> "none", text |-> Blank]
NoLoad == [pc |-> "none", copy |-> NoCopy]

TypeOK ==
    /\ global \in File
    /\ private \in File
    /\ writable \in BOOLEAN
    /\ cache \in Copy
    /\ at \in [Threads ->
                [pc : {"idle", "resolve", "check", "global", "private", "tombstone",
                       "truncate", "fill", "reload"},
                 req : Request \cup {NoRequest}, target : Owners,
                 file : {"none", "global", "private"}, text : File]]
    /\ load \in [Threads -> [pc : {"none", "global", "private", "store", "done", "raised"},
                             copy : Copy]]
    /\ since \in [global : SUBSET File, private : SUBSET File]
    /\ made \in Nat

Init ==
    /\ global = Whole(Shipped)
    /\ private = Whole(Kept)
    /\ writable \in BOOLEAN
    /\ cache = NoCopy
    /\ at = [h \in Threads |-> Idle]
    /\ load = [t \in Threads |-> NoLoad]
    /\ since = [global |-> {global}, private |-> {private}]
    /\ made = 0

-----------------------------------------------------------------------------
(* Parsing and listing *)

\* _load_sources_cached: the entries of both files without the deleted ids.
Parsed(g, p) == {e \in g.entries \cup p.entries : [id |-> e.id, isKey |-> FALSE] \notin p.deleted}

\* The cached list answers for the bucket it was made in.
Hit == ~cache.old

\* Mutant of ListedFor: the shared flag of another user's library is ignored.
ListedForOwned(u) ==
    {e \in Parsed(cache.global, cache.private) :
        \/ e.owner = Nobody /\ e.shared
        \/ e.owner = u
        \/ e.owner # Nobody /\ e.owner \notin Expired}

\* load_sources_for_user for a member, answered from the cache.
ListedFor(u) ==
    {e \in Parsed(cache.global, cache.private) :
        \/ e.owner = Nobody /\ e.shared
        \/ e.owner = u
        \/ e.shared /\ e.owner # Nobody /\ e.owner \notin Expired}

Listing == <<writable, at, made>>
Files == <<global, private, since>>

\* A call finds no list for the current bucket.
StartLoad(t) ==
    load' = [load EXCEPT ![t] = [pc |-> "global", copy |-> [NoCopy EXCEPT !.old = FALSE]]]

\* Any request that needs the list: a page of libraries, a search, a sync.
ReadList(t) ==
    /\ at[t].pc = "idle"
    /\ load[t].pc = "none"
    /\ ~Hit
    /\ StartLoad(t)
    /\ UNCHANGED <<Files, cache, Listing>>

\* A request that waits for the list gets it, or the parser's exception, which
\* is not cached; any other request ends there.
Returned(t, pc, copy) == IF at[t].pc = "resolve" THEN [pc |-> pc, copy |-> copy] ELSE NoLoad
Raised(t) == Returned(t, "raised", NoCopy)

LoadGlobal(t) ==
    /\ load[t].pc = "global"
    /\ load' = [load EXCEPT ![t] =
                  IF global.kind = "garbled" THEN Raised(t)
                  ELSE [pc |-> "private", copy |-> [@.copy EXCEPT !.global = global]]]
    /\ UNCHANGED <<Files, cache, Listing>>

LoadPrivate(t) ==
    /\ load[t].pc = "private"
    /\ load' = [load EXCEPT ![t] =
                  IF private.kind = "garbled" THEN Raised(t)
                  ELSE [pc |-> "store", copy |-> [@.copy EXCEPT !.private = private]]]
    /\ UNCHANGED <<Files, cache, Listing>>

\* Mutant of StoreList: the list is kept under the bucket that is current now.
StoreListAsCurrent(t) ==
    /\ load[t].pc = "store"
    /\ cache' = IF Hit THEN cache ELSE [load[t].copy EXCEPT !.old = FALSE]
    /\ load' = [load EXCEPT ![t] = Returned(t, "done", @.copy)]
    /\ UNCHANGED <<Files, Listing>>

\* lru_cache(maxsize=1): the list replaces the one of another bucket, and is
\* not kept when a list of its own bucket has been stored meanwhile.
StoreList(t) ==
    /\ load[t].pc = "store"
    /\ cache' = IF Hit /\ ~load[t].copy.old THEN cache ELSE load[t].copy
    /\ load' = [load EXCEPT ![t] = Returned(t, "done", @.copy)]
    /\ UNCHANGED <<Files, Listing>>

\* Mutant of NextBucket: the cache has no time to live.
NextBucketForgotten ==
    /\ load' = [t \in Threads |-> [load[t] EXCEPT !.copy.old = TRUE]]
    /\ since' = [global |-> {global}, private |-> {private}]
    /\ UNCHANGED <<global, private, cache, Listing>>

\* int(time.time() / 30) changes.
NextBucket ==
    /\ cache' = [cache EXCEPT !.old = TRUE]
    /\ load' = [t \in Threads |-> [load[t] EXCEPT !.copy.old = TRUE]]
    /\ since' = [global |-> {global}, private |-> {private}]
    /\ UNCHANGED <<global, private, Listing>>

-----------------------------------------------------------------------------
(* What a handler makes of the text it read *)

Of(f, i, o) == {e \in f.entries : e.id = i /\ e.owner = o}
Named(f, i) == {e \in f.entries : e.id = i}
Library(i, o, s) == [id |-> i, owner |-> o, shared |-> s, number |-> 1]
Flipped(f, e) == [f EXCEPT !.kind = "whole",
                           !.entries = (@ \ {e}) \cup {[e EXCEPT !.shared = ~@]}]
Without(f, es) == [f EXCEPT !.kind = "whole", !.entries = @ \ es]
With(f, e) == [f EXCEPT !.kind = "whole", !.entries = @ \cup {e}]

\* What each handler makes of the file it read; nothing if it finds nothing to
\* do.  Sharing, and the deletion of a snapshot, stop at the first entry.

SnapshotAdded(r, f) ==
    IF Named(f, r.id) = {} THEN {With(f, Library(r.id, Nobody, FALSE))} ELSE {}

\* The url and the path of a library are not modelled: only the writing is.
SnapshotUpdated(r, f) == IF Named(f, r.id) = {} THEN {} ELSE {Without(f, {})}

SnapshotDeleted(r, f) == {Without(f, {e}) : e \in Named(f, r.id)}

\* Sharing a global library that is not in sources.yaml appends it there.
GlobalShared(r, f) ==
    IF Named(f, r.id) = {} THEN {With(f, Library(r.id, Nobody, TRUE))}
    ELSE {Flipped(f, e) : e \in Named(f, r.id)}

\* A sync key names the entries of one type, which may be all of them or none.
AdminDeleted(r, f) ==
    IF r.isKey THEN {Without(f, es) : es \in (SUBSET Named(f, r.id)) \ {{}}}
    ELSE IF Named(f, r.id) = {} THEN {} ELSE {Without(f, Named(f, r.id))}

GlobalDeleted(r, f) == IF Named(f, r.id) = {} THEN {} ELSE {Without(f, Named(f, r.id))}

AnyDeleted(r, o, f) == IF Of(f, r.id, o) = {} THEN {} ELSE {Without(f, Of(f, r.id, o))}

CustomAdded(r, f) ==
    IF Named(f, r.id) = {} THEN {With(f, Library(r.id, Nobody, FALSE))} ELSE {}

DefaultAdded(r, f) ==
    IF Named(f, r.id) = {} THEN {With(f, Library(r.id, r.by, FALSE))} ELSE {}

\* An id of somebody else may be used again; an empty file ends in an exception.
UserAdded(r, f) ==
    IF Of(f, r.id, r.by) = {} /\ f.kind # "blank"
      THEN {With(f, Library(r.id, r.by, FALSE))} ELSE {}

PrivateShared(r, o, f) == {Flipped(f, e) : e \in Of(f, r.id, o)}

UserDeleted(r, f) == IF Of(f, r.id, r.by) = {} THEN {} ELSE {Without(f, Of(f, r.id, r.by))}

NewGlobal(r, f) ==
    CASE r.op = "webAdd" -> SnapshotAdded(r, f)
      [] r.op = "webUpdate" -> SnapshotUpdated(r, f)
      [] r.op = "webDelete" -> SnapshotDeleted(r, f)
      [] r.op = "anyShare" -> GlobalShared(r, f)
      [] r.op = "adminDelete" -> AdminDeleted(r, f)
      [] r.op = "anyDelete" -> GlobalDeleted(r, f)

NewPrivate(r, o, f) ==
    CASE r.op = "custom" -> CustomAdded(r, f)
      [] r.op \in {"create", "restore"} -> DefaultAdded(r, f)
      [] r.op = "userAdd" -> UserAdded(r, f)
      [] r.op \in {"userShare", "anyShare"} -> PrivateShared(r, o, f)
      [] r.op = "userDelete" -> UserDeleted(r, f)
      [] r.op = "anyDelete" -> AnyDeleted(r, o, f)
      [] r.op = "adminDelete" -> AdminDeleted(r, f)

-----------------------------------------------------------------------------
(* The handlers *)

Config == <<global, private, writable, since>>
Become(h, a) == at' = [at EXCEPT ![h] = a]
Goto(h, pc) == Become(h, [at[h] EXCEPT !.pc = pc])

FirstStep(op) ==
    CASE op \in {"userShare", "userDelete", "anyShare", "anyDelete"} -> "resolve"
      [] op = "restore" -> "check"
      [] op \in {"custom", "userAdd", "create"} -> "private"
      [] OTHER -> "global"

Ask(h) ==
    /\ at[h].pc = "idle"
    /\ load[h].pc = "none"
    /\ made < MaxRequests
    /\ made' = made + 1
    /\ \E r \in {q \in Request : q.op \in Ops} :
         /\ Become(h, [Idle EXCEPT !.pc = FirstStep(r.op), !.req = r, !.target = r.by])
         /\ IF FirstStep(r.op) = "resolve" /\ ~Hit THEN StartLoad(h) ELSE UNCHANGED load
    /\ UNCHANGED <<Config, cache>>

\* The first library of the list with the id: sources.yaml is parsed first.
First(copy, i) ==
    LET list == Parsed(copy.global, copy.private)
        found == {e \in list : e.id = i}
    IN  IF found \cap copy.global.entries # {} THEN found \cap copy.global.entries ELSE found

\* require_own_source for a member, the search for the target for the admin.
\* The list comes from the cache, or from the call the request had to make.
Resolve(h) ==
    /\ at[h].pc = "resolve"
    /\ \/ load[h].pc = "none" /\ Hit
       \/ load[h].pc \in {"done", "raised"}
    /\ LET copy == IF load[h].pc = "none" THEN cache ELSE load[h].copy
           r == at[h].req
       IN  \/ /\ load[h].pc = "raised" \/ First(copy, r.id) = {}
              /\ Become(h, Idle)
           \/ /\ load[h].pc # "raised"
              /\ \E e \in First(copy, r.id) :
                   IF r.op \in {"anyShare", "anyDelete"}
                     THEN Become(h, [at[h] EXCEPT !.target = e.owner,
                                       !.pc = IF e.owner = Nobody THEN "global" ELSE "private"])
                   ELSE IF e.owner \in {Nobody, r.by} THEN Goto(h, "private")
                   ELSE Become(h, Idle)
    /\ load' = [load EXCEPT ![h] = NoLoad]
    /\ UNCHANGED <<Config, cache, made>>

\* A bucket that ends between the request and its lookup costs it a call.
ResolveMiss(h) ==
    /\ at[h].pc = "resolve"
    /\ load[h].pc = "none" /\ ~Hit
    /\ StartLoad(h)
    /\ UNCHANGED <<Config, cache, at, made>>

\* admin_restore_user, admin_set_user_role: a user with a library gets no other.
\* load_user_sources takes a text that does not parse for one without libraries.
CheckDefault(h) ==
    /\ at[h].pc = "check"
    /\ LET known == /\ private.kind # "garbled"
                    /\ \E e \in private.entries : e.owner = at[h].req.by
       IN  Goto(h, IF known THEN "reload" ELSE "private")
    /\ UNCHANGED <<Config, cache, load, made>>

\* The file cannot be parsed, nothing is found in it, or a text is made of it.
Unparsable(f) == f.kind = "garbled"
Makes(h, file, f) == Become(h, [at[h] EXCEPT !.pc = "truncate", !.file = file, !.text = f])
FindsNothing(r, new) == new = {} \/ r.isKey

\* Reads sources.yaml.  An OSError of the write ends the request, but for
\* admin_delete_source, which marks the id as deleted in the other file.
EditGlobal(h) ==
    /\ at[h].pc = "global"
    /\ LET r == at[h].req
           new == IF Unparsable(global) THEN {} ELSE NewGlobal(r, global)
       IN  \/ Unparsable(global) /\ Become(h, Idle)
           \/ /\ ~Unparsable(global) /\ FindsNothing(r, new)
              /\ IF r.op \in {"adminDelete", "anyDelete"} THEN Goto(h, "private")
                 ELSE Become(h, Idle)
           \/ writable /\ \E f \in new : Makes(h, "global", f)
           \/ /\ ~writable /\ new # {}
              /\ IF r.op = "adminDelete" THEN Goto(h, "tombstone") ELSE Become(h, Idle)
    /\ UNCHANGED <<Config, cache, load, made>>

EditPrivate(h) ==
    /\ at[h].pc = "private"
    /\ LET r == at[h].req
           new == IF Unparsable(private) THEN {} ELSE NewPrivate(r, at[h].target, private)
       IN  \/ Unparsable(private) /\ Become(h, Idle)
           \/ /\ ~Unparsable(private) /\ FindsNothing(r, new)
              /\ IF r.op \in {"create", "restore"} THEN Goto(h, "reload") ELSE Become(h, Idle)
           \/ \E f \in new : Makes(h, "private", f)
    /\ UNCHANGED <<Config, cache, load, made>>

\* The mark is the text of the request, whether that is an id or a sync key.
MarkDeleted(h) ==
    /\ at[h].pc = "tombstone"
    /\ Become(h, IF private.kind = "garbled" THEN Idle
                 ELSE [at[h] EXCEPT !.pc = "truncate", !.file = "private",
                         !.text = [private EXCEPT !.kind = "whole",
                            !.deleted = @ \cup {[id |-> at[h].req.id, isKey |-> at[h].req.isKey]}]])
    /\ UNCHANGED <<Config, cache, load, made>>

Put(h, f) ==
    /\ IF at[h].file = "global" THEN global' = f /\ UNCHANGED private
       ELSE private' = f /\ UNCHANGED global
    /\ since' = [since EXCEPT ![at[h].file] = @ \cup {f}]

Now(h) == IF at[h].file = "global" THEN global ELSE private

Truncate(h) ==
    /\ at[h].pc = "truncate"
    /\ Put(h, Blank)
    /\ Goto(h, "fill")
    /\ UNCHANGED <<writable, cache, load, made>>

\* What can be left of two texts written over each other.  A piece is an entry
\* of either, the other one's under its other number (at most two are alike);
\* where two pieces meet, an entry can end in the owner and flag of another.
Again(e) == [e EXCEPT !.number = 3 - @]
Pieces(f, g) == f.entries \cup {Again(e) : e \in g.entries}
Joint(d, e, o) == [d EXCEPT !.owner = o, !.shared = e.shared]
Joints(f, g) == {{}} \cup {{Joint(d, e, o)} : d \in f.entries, e \in g.entries,
                                           o \in Owners \cap {x.owner : x \in f.entries \cup g.entries}}
Mixtures(f, g) ==
    {[kind |-> "whole", entries |-> es \cup joint, deleted |-> marks] :
        es \in SUBSET Pieces(f, g), joint \in Joints(f, g),
        marks \in {f.deleted, g.deleted, f.deleted \cup g.deleted}}
Shambles(f, g) ==
    [kind |-> "garbled", entries |-> Pieces(f, g), deleted |-> f.deleted \cup g.deleted]

\* write_text writes from the start of the file; the file is blank unless
\* another handler wrote its text since this one's truncation.
Fill(h) ==
    /\ at[h].pc = "fill"
    /\ LET text == at[h].text
           mixed == {text, Shambles(text, Now(h))} \cup Mixtures(text, Now(h))
       IN  \E f \in IF Now(h).kind = "blank" THEN {text} ELSE mixed : Put(h, f)
    /\ Become(h, [at[h] EXCEPT !.pc = "reload", !.file = "none", !.text = Blank])
    /\ UNCHANGED <<writable, cache, load, made>>

\* reload_sources_config: the cache is cleared, the list is read again, and
\* the request is answered.
Reload(h) ==
    /\ at[h].pc = "reload"
    /\ cache' = NoCopy
    /\ StartLoad(h)
    /\ Become(h, Idle)
    /\ UNCHANGED <<Config, made>>

-----------------------------------------------------------------------------

Loading(t) == LoadGlobal(t) \/ LoadPrivate(t) \/ StoreList(t)

Handling(h) ==
    \/ Resolve(h) \/ ResolveMiss(h) \/ CheckDefault(h)
    \/ EditGlobal(h) \/ EditPrivate(h) \/ MarkDeleted(h)
    \/ Truncate(h) \/ Fill(h) \/ Reload(h)

Next ==
    \/ \E t \in Threads : Ask(t) \/ Handling(t) \/ ReadList(t) \/ Loading(t)
    \/ NextBucket

\* A thread that has begun goes on, and time passes.
Fairness ==
    /\ \A t \in Threads : WF_vars(Handling(t)) /\ WF_vars(Loading(t))
    /\ WF_vars(NextBucket)

Spec == Init /\ [][Next]_vars /\ Fairness

-----------------------------------------------------------------------------
(* Properties *)

\* A list that answers from the cache was read during the current bucket, each
\* file on its own: a reader that was slow across a write, or across the end of
\* a bucket, cannot make load_sources answer with texts older than that.
StaleAtMostOneBucket ==
    Hit => cache.global \in since.global /\ cache.private \in since.private

\* What a member is shown of others was shared in one of the files at some time
\* during the current bucket: taking a share back works within 30 seconds,
\* whatever readers and handlers do meanwhile.
UnsharedWithinABucket ==
    Hit => \A u \in Users : \A e \in ListedFor(u) :
              \/ e.owner = u
              \/ \E f \in since.global \cup since.private :
                    \E d \in f.entries : d.id = e.id /\ d.owner = e.owner /\ d.shared

\* When the handlers have come to rest, the cache ends up with what the files
\* say and stays there: no list of an earlier moment is served for ever.
EventuallyListed ==
    <>[](Hit => cache.global = global /\ cache.private = private)

=============================================================================
