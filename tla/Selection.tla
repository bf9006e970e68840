------------------------------ MODULE Selection -----------------------------
(***************************************************************************)
(* What a job works on and in which order: the saved settings of every     *)
(* user over the global defaults, the sync keys they are made of, the      *)
(* sources a user may see, the order, and the pairing of a github source   *)
(* with its local copy.                                                    *)
(*                                                                         *)
(* A request resolves the saved selection with the role of its login or    *)
(* API key; the job it leaves behind reads settings, users and sources     *)
(* again, later and with another role.  None (Everything here) and the     *)
(* empty list both stand for "all" to the job.                             *)
(*                                                                         *)
(* A sync key is <<id, type>>, and <<id, AnyType>> when no type is given:  *)
(* it names no owner.  Jobs come one at a time (SyncJobs); what a pull     *)
(* makes of a pair is RemoteSync, the files of sources are SourcesConfig.  *)
(***************************************************************************)
EXTENDS Integers, Sequences, FiniteSets, SequencesExt

CONSTANTS
    Users,        \* usernames
    Admins,       \* those of them who are admins at the start
    NoUser,       \* no username: the scheduler, an API key bound to nobody
    Global,       \* the scope of the rows without a username
    NoRow,        \* no such row; a field the payload does not have
    NoRole,       \* role=None
    AnyType,      \* the type of a key without a type
    Everything,   \* source_ids None
    NoJob,
    Catalogue,    \* the sources there can be, in the order of the files
    PresetIds,    \* SYNC_PRESETS: the keys each preset stands for
    SamePlace,    \* <<github id, local id>> with one path or repository name
    Payloads,     \* the settings a client posts
    Requests,     \* what a client asks a sync or a rebuild for
    MaxSaves,     \* bound: settings saved
    MaxChanges    \* bound: sources, roles and users changed

Sources == ToSet(Catalogue)
Roles == {"admin", "member"}
Callers == Users \cup {NoUser}
Scopes == Users \cup {Global}
SourceTypes == {"github", "local", "web"}

ASSUME SelectionAssumption ==
    /\ Admins \subseteq Users
    /\ NoUser \notin Users
    /\ Global \notin Callers
    /\ NoRole \notin Roles
    /\ Catalogue \in Seq(Sources)
    /\ AnyType \notin SourceTypes
    /\ \A s \in Sources : s \in [id : {s.id}, type : SourceTypes, owner : Callers,
                                shared : BOOLEAN, order : Int]
    /\ Everything \notin Seq({s.id : s \in Sources} \X SourceTypes)
    /\ \A p \in Payloads : \A keys \in {p.ids, p.order} :
          keys = NoRow \/ keys \in Seq(ToSet(keys))
    /\ MaxSaves \in Nat
    /\ MaxChanges \in Nat

VARIABLES
    sources,      \* what load_sources returns
    role,         \* users.role
    gone,         \* users deleted more than 30 days ago
    rows,         \* app_settings: preset, ids and order by scope
    job,          \* the accepted or running job
    saves, changes

vars == <<sources, role, gone, rows, job, saves, changes>>

NoRows == [preset |-> NoRow, ids |-> NoRow, order |-> NoRow]
Defaults == [preset |-> "all", ids |-> <<>>, order |-> <<>>]

Init ==
    /\ sources = Catalogue
    /\ role = [u \in Users |-> IF u \in Admins THEN "admin" ELSE "member"]
    /\ gone = {}
    /\ rows = [c \in Scopes |-> IF c = Global THEN Defaults ELSE NoRows]
    /\ job = NoJob
    /\ saves = 0
    /\ changes = 0

-----------------------------------------------------------------------------
(* Lists in an order, and what a comprehension with a condition keeps of a list. *)

\* The members of the finite set S in the strict total order R, a set of pairs: the
\* nth is the one with n - 1 before it.  (SetToSortSeq, as the proofs can read it.)
InOrder(S, R) ==
    [n \in 1 .. Cardinality(S) |->
        CHOOSE i \in S : Cardinality({j \in S : <<j, i>> \in R}) = n - 1]

\* Tuples of numbers, as Python compares them.
Lower(a, b) ==
    \E n \in DOMAIN a : a[n] < b[n] /\ \A o \in 1 .. n - 1 : a[o] = b[o]

\* The elements at the places I of a list.
AtPlaces(list, I) ==
    LET e == InOrder(I, {p \in I \X I : p[1] < p[2]})
    IN  [n \in DOMAIN e |-> list[e[n]]]

Where(list, Test(_)) == AtPlaces(list, {i \in DOMAIN list : Test(list[i])})

-----------------------------------------------------------------------------
(* Sync keys. *)

Key(s) == <<s.id, s.type>>

Matches(s, k) == k[1] = s.id /\ k[2] \in {s.type, AnyType}

Distinct(q) == AtPlaces(q, {i \in DOMAIN q : \A j \in 1 .. i - 1 : q[j] # q[i]})

KeysOf(list) == [i \in DOMAIN list |-> Key(list[i])]

\* Key by key of raw, and for each the sources of the list it matches.
ExpandSyncKeys(raw, list) ==
    LET hits == {h \in (DOMAIN raw) \X (DOMAIN list) : Matches(list[h[2]], raw[h[1]])}
        e == InOrder(hits, {p \in hits \X hits : Lower(p[1], p[2])})
    IN  Distinct([n \in DOMAIN e |-> Key(list[e[n][2]])])

FilterBySyncKeys(list, keys) ==
    Where(list, LAMBDA s : \E k \in ToSet(keys) : Matches(s, k))

\* A job takes Everything and the empty list for no filter at all.
Filtered(list, keys) ==
    IF keys \in {Everything, <<>>} THEN list ELSE FilterBySyncKeys(list, keys)

\* is_known_sync_key, and the presets list_sync_presets offers by their name.
Known(k) ==
    \/ \E s \in ToSet(sources) : Matches(s, k)
    \/ k[2] = AnyType /\ k[1] \in DOMAIN PresetIds /\ PresetIds[k[1]] # Everything

-----------------------------------------------------------------------------
(* Settings and sources as a caller reads them. *)

\* Mutant: a global row that was ever set wins over the user's own.
ReadSettingsGlobalFirst(u) ==
    [k \in DOMAIN Defaults |->
        IF u \in Users /\ rows[u][k] # NoRow /\ rows[Global][k] = Defaults[k]
        THEN rows[u][k] ELSE rows[Global][k]]

ReadSettings(u) ==
    [k \in DOMAIN Defaults |->
        IF u \in Users /\ rows[u][k] # NoRow THEN rows[u][k] ELSE rows[Global][k]]

\* Users gone for 30 days are looked up only when a role is given.
MaySee(u, r, s) ==
    \/ r = "admin"
    \/ s.owner = NoUser /\ s.shared
    \/ u # NoUser /\ s.owner = u
    \/ /\ u # NoUser
       /\ s.owner # NoUser
       /\ s.shared
       /\ s.owner \in gone => r = NoRole

SourcesForUser(u, r) == Where(sources, LAMBDA s : MaySee(u, r, s))

\* sorted() by this key: sources of the manual order first, then by the order
\* of their entry, then by the place of the last source with the same key.
Rank(list, manual, i) ==
    LET same == {j \in DOMAIN list : Key(list[j]) = Key(list[i])}
        last == CHOOSE j \in same : \A o \in same : o <= j
        at == {m \in DOMAIN manual : manual[m] = Key(list[i])}
    IN  IF at # {} THEN <<0, CHOOSE m \in at : TRUE, last, i>>
        ELSE <<1, list[i].order, last, i>>

\* Mutant: the list stays in the order of the files.
ApplySourceOrderFilesOnly(list, st) == list

ApplySourceOrder(list, st) ==
    LET manual == ExpandSyncKeys(st.order, list)
        rank == [i \in DOMAIN list |-> Rank(list, manual, i)]
        e == InOrder(DOMAIN list, {p \in (DOMAIN list) \X (DOMAIN list) :
                                      Lower(rank[p[1]], rank[p[2]])})
    IN  [n \in DOMAIN e |-> list[e[n]]]

OrderedSources(u, r, st) == ApplySourceOrder(SourcesForUser(u, r), st)

\* read_sync_settings looks the role up when none is given.
SelectedKeys(u, r, st) ==
    LET seen == SourcesForUser(u, IF r = NoRole /\ u \in Users THEN role[u] ELSE r)
    IN  CASE st.preset = "custom" -> ExpandSyncKeys(st.ids, seen)
          [] st.preset # "custom" /\ PresetIds[st.preset] = Everything -> Distinct(KeysOf(seen))
          [] OTHER -> ExpandSyncKeys(PresetIds[st.preset], seen)

\* Mutant: one selected key among those in sight is taken for all of them.
ResolveSyncSourceIdsAny(u, r) ==
    LET st == ReadSettings(u)
        all == OrderedSources(u, r, st)
        selected == ToSet(SelectedKeys(u, r, st))
        Kept(keys) == Where(KeysOf(all), LAMBDA k : k \in keys)
    IN  IF selected = {} \/ ToSet(KeysOf(all)) \cap selected # {} THEN Everything
        ELSE Kept(selected)

ResolveSyncSourceIds(u, r) ==
    LET st == ReadSettings(u)
        all == OrderedSources(u, r, st)
        selected == ToSet(SelectedKeys(u, r, st))
        Owned(s) == s.owner = u \/ (r = "admin" /\ s.owner = NoUser)
        owned == {Key(s) : s \in {t \in ToSet(all) : Owned(t)}}
        Kept(keys) == Where(KeysOf(all), LAMBDA k : k \in keys)
    IN  IF st.preset = "all" THEN Kept(owned \cup selected)
        ELSE IF selected = {} \/ ToSet(KeysOf(all)) \subseteq selected THEN Everything
        ELSE Kept(selected)

-----------------------------------------------------------------------------
(* The github/local pairs of a list, as build_sync_plan makes them. *)

OfType(list, t) == Where(list, LAMBDA s : s.type = t)

Alike(g, l) == g.id = l.id \/ <<g.id, l.id>> \in SamePlace

PairedIds(list) ==
    LET Pair(used, g) ==
            LET free == Where(OfType(list, "local"), LAMBDA l : l.id \notin used /\ Alike(g, l))
            IN  IF free = <<>> THEN used ELSE used \cup {Head(free).id}
    IN  FoldLeft(Pair, {}, OfType(list, "github"))

\* The pairs, then the local sources in no pair, then the web sources.  A pair stands
\* here as its github source; when the pull fails the job indexes the local one in its
\* place, which is among the chosen (resolve_index_source, in RemoteSync).
Plan(list) ==
    OfType(list, "github")
        \o Where(OfType(list, "local"), LAMBDA l : l.id \notin PairedIds(list))
        \o OfType(list, "web")

-----------------------------------------------------------------------------
(* The environment: the source files, the users. *)

Change == changes < MaxChanges /\ changes' = changes + 1

EditSources ==
    /\ Change
    /\ \/ \E i \in DOMAIN sources : sources' = AtPlaces(sources, (DOMAIN sources) \ {i})
       \/ \E i \in DOMAIN sources : sources' = [sources EXCEPT ![i].shared = ~@]
       \/ \E s \in Sources \ ToSet(sources) : sources' = Append(sources, s)
    /\ UNCHANGED <<role, gone, rows, job, saves>>

SetRole(u, r) ==
    /\ Change
    /\ role[u] # r
    /\ role' = [role EXCEPT ![u] = r]
    /\ UNCHANGED <<sources, gone, rows, job, saves>>

\* admin_delete_user, and 30 days.
Forget(u) ==
    /\ Change
    /\ gone' = gone \cup {u}
    /\ UNCHANGED <<sources, role, rows, job, saves>>

-----------------------------------------------------------------------------
(* The handlers.  r is the role of the session, set at the login, or that of an *)
(* API key, which is always admin: not the one of the users row.                *)

May(u, r) == u \in gone \cup {NoUser} => r = "admin"

PresetToStore(preset) ==
    IF preset \in DOMAIN PresetIds \cup {"custom", NoRow} THEN preset ELSE "all"

SaveSettings(u, r, p) ==
    LET Checked(keys) == IF keys = NoRow THEN NoRow ELSE Where(keys, Known)
        new == [preset |-> PresetToStore(p.preset), ids |-> Checked(p.ids), order |-> Checked(p.order)]
        Over(old, fields) == [k \in DOMAIN old |->
                                 IF k \in fields /\ new[k] # NoRow THEN new[k] ELSE old[k]]
    IN  /\ saves < MaxSaves
        /\ saves' = saves + 1
        /\ rows' = [c \in Scopes |->
                        CASE c = u -> Over(rows[c], {"preset", "ids", "order"})
                          [] c = Global /\ r = "admin" -> Over(rows[c], {"preset", "ids"})
                          [] OTHER -> rows[c]]
        /\ UNCHANGED <<sources, role, gone, job, changes>>

\* The source_ids a request leaves to the job.
Asked(u, r, q) ==
    CASE q.preset \in DOMAIN PresetIds -> PresetIds[q.preset]
      [] q.preset \notin DOMAIN PresetIds /\ q.ids # <<>> -> q.ids
      [] OTHER -> IF q.saved THEN ResolveSyncSourceIds(u, r) ELSE Everything

\* only is history: the keys of a saved selection of some of the sources in sight.
Accept(u, r, q, mode) ==
    LET st == ReadSettings(u)
        saved == q.saved /\ q.ids = <<>> /\ q.preset \notin DOMAIN PresetIds
        seen == SourcesForUser(u, r)
        picked == ToSet(ExpandSyncKeys(st.ids, seen))
    IN  /\ job = NoJob
        /\ job' = [user |-> u, mode |-> mode, keys |-> Asked(u, r, q), step |-> "accepted",
                   chosen |-> <<>>, work |-> <<>>, asAdmin |-> FALSE,
                   only |-> IF /\ saved /\ st.preset = "custom" /\ picked # {}
                               /\ ~ (ToSet(KeysOf(seen)) \subseteq picked)
                            THEN picked ELSE Everything]
        /\ UNCHANGED <<sources, role, gone, rows, saves, changes>>

\* The scheduler's run_sync_job("auto").
AutoSync ==
    /\ job = NoJob
    /\ job' = [user |-> NoUser, mode |-> "sync", keys |-> Everything, step |-> "accepted",
               chosen |-> <<>>, work |-> <<>>, asAdmin |-> FALSE, only |-> Everything]
    /\ UNCHANGED <<sources, role, gone, rows, saves, changes>>

-----------------------------------------------------------------------------
(* The job. *)

StartJob ==
    /\ job # NoJob
    /\ job.step = "accepted"
    /\ job' = [job EXCEPT !.step = "started",
                          !.keys = IF @ = Everything THEN ResolveSyncSourceIds(job.user, NoRole)
                                   ELSE @]
    /\ UNCHANGED <<sources, role, gone, rows, saves, changes>>

\* Mutant: the sync reads the sources as an admin.
LoadSourcesAsAdmin ==
    /\ job # NoJob
    /\ job.step = "started"
    /\ LET u == job.user
           r == IF job.mode = "sync" THEN "admin" ELSE IF u \in Users THEN role[u] ELSE NoRole
           st == ReadSettings(u)
           chosen == ApplySourceOrder(Filtered(OrderedSources(u, r, st), job.keys), st)
       IN  job' = [job EXCEPT !.step = "loaded", !.chosen = chosen,
                              !.work = IF job.mode = "sync" THEN Plan(chosen) ELSE chosen,
                              !.asAdmin = (job.mode = "rebuild" /\ r = "admin")]
    /\ UNCHANGED <<sources, role, gone, rows, saves, changes>>

\* A sync reads the sources with no role, a rebuild with that of the users row.
LoadSources ==
    /\ job # NoJob
    /\ job.step = "started"
    /\ LET u == job.user
           r == IF job.mode = "rebuild" /\ u \in Users THEN role[u] ELSE NoRole
           st == ReadSettings(u)
           chosen == ApplySourceOrder(Filtered(OrderedSources(u, r, st), job.keys), st)
       IN  job' = [job EXCEPT !.step = "loaded", !.chosen = chosen,
                              !.work = IF job.mode = "sync" THEN Plan(chosen) ELSE chosen,
                              !.asAdmin = (r = "admin")]
    /\ UNCHANGED <<sources, role, gone, rows, saves, changes>>

EndJob ==
    /\ job # NoJob
    /\ job.step = "loaded"
    /\ job' = NoJob
    /\ UNCHANGED <<sources, role, gone, rows, saves, changes>>

Next ==
    \/ EditSources
    \/ \E u \in Users : \/ \E r \in Roles : SetRole(u, r)
                        \/ Forget(u)
    \/ \E u \in Callers, r \in Roles :
          /\ May(u, r)
          /\ \/ \E p \in Payloads : SaveSettings(u, r, p)
             \/ \E q \in Requests, mode \in {"sync", "rebuild"} : Accept(u, r, q, mode)
    \/ AutoSync
    \/ StartJob
    \/ LoadSources
    \/ EndJob

Spec == Init /\ [][Next]_vars

-----------------------------------------------------------------------------
(* Properties. *)

Loaded == job # NoJob /\ job.step = "loaded"
Loads == job # NoJob /\ job.step = "started" /\ job'.step = "loaded"

SameEntry(s, t) == Key(s) = Key(t) /\ s.owner = t.owner

\* A job reads no library, a pair's local copy in place of its github source included,
\* that is neither its user's own nor shared, whatever role the request had, whatever
\* keys it named and whatever changed while the job waited; only a rebuild of a user
\* who is an admin at that moment does.
NobodysPrivateSource ==
    Loaded => \A s \in ToSet(job.chosen) \cup ToSet(job.work) :
                  s.shared \/ (job.user \in Users /\ s.owner = job.user) \/ job.asAdmin

\* A saved selection of some of the sources the caller sees bounds the job: what is
\* saved, shared, deleted or granted while it waits adds no other key, and in
\* particular the job does not fall back to all sources.
SelectionIsKept ==
    Loaded /\ job.only # Everything => ToSet(KeysOf(job.chosen)) \subseteq job.only

\* A user with a preset and ids of his own selects the same whoever else saves
\* settings, admins included, whose settings are the defaults of the others.
OthersLeaveMySelection ==
    [][\A u \in Users :
          rows' # rows /\ rows'[u] = rows[u] /\ rows[u].preset # NoRow /\ rows[u].ids # NoRow
              => LET now == ReadSettings(u)
                     later == ReadSettings(u)'
                 IN  \A r \in Roles : SelectedKeys(u, r, later) = SelectedKeys(u, r, now)]_vars

\* The sources of one type are worked on in the saved manual order, a key without a
\* type standing for all its sources, then in the order of their entries; a rebuild
\* keeps this order over all types, a sync takes the pairs first.
OrderIsKept ==
    [][Loads =>
          LET st == ReadSettings(job.user)
              Places(s) == {i \in DOMAIN st.order : Matches(s, st.order[i])}
              Before(s, t) ==
                  \/ Places(s) # {} /\ \A j \in Places(t) : \E i \in Places(s) : i < j
                  \/ Places(s) = {} /\ Places(t) = {} /\ s.order < t.order
          IN  \A m, n \in DOMAIN job'.work :
                  LET s == job'.work[m]
                      t == job'.work[n]
                  IN  Before(s, t) /\ (s.type = t.type \/ job.mode = "rebuild") => m < n]_vars

=============================================================================
