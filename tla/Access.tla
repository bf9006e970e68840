-------------------------------- MODULE Access -------------------------------
(***************************************************************************)
(* Who may do what: accounts, server-side sessions and API keys, all rows  *)
(* of SQLite, and the requests that use and change them.  A login checks   *)
(* the password and creates the session in two transactions; a request     *)
(* reads its session row in one statement and writes last_active_at, with  *)
(* the time it began at, in a later one.  Nothing but the session row is   *)
(* looked at after the login: neither deleted_at nor the role of users.    *)
(*                                                                         *)
(* Time is relative: a row says how long it still lives and how long ago   *)
(* it was used.  A refused get_session deletes the row and closes the      *)
(* connection without a commit, so the row stays.  login_failures and      *)
(* users.locked_until are left out: mark_login_failure, which alone would  *)
(* write them, is called by nobody, and the checks of both never refuse.   *)
(***************************************************************************)
EXTENDS Naturals

CONSTANTS
    Accounts,     \* user names
    EnvAdmins,    \* accounts AUTH_USERS lists as admin, with the password "first"
    EnvMembers,   \* accounts AUTH_USERS lists as member, with the password "first"
    Threads,      \* threads of the server's pool
    Sids,         \* session ids to draw; bound: sessions created
    Nobody,       \* the name of the API key in the environment
    Idle,         \* session_idle_timeout_seconds
    Ttl,          \* the life of a session without "remember me"
    LongTtl       \* the life of one with it

ASSUME AccessAssumption ==
    /\ Nobody \notin Accounts
    /\ EnvAdmins \subseteq Accounts /\ EnvMembers \subseteq Accounts
    /\ EnvAdmins \cap EnvMembers = {}
    /\ Idle \in Nat \ {0} /\ Ttl \in Nat \ {0} /\ LongTtl \in Nat /\ Ttl <= LongTtl

VARIABLES
    user,      \* the table users
    session,   \* the table sessions
    keys,      \* the accounts that have a key in the table api_keys
    issued,    \* session ids drawn so far
    at         \* the request each thread serves

vars == <<user, session, keys, issued, at>>

Roles == {"admin", "member"}
Passwords == {"first", "second"}
User == [state : {"absent", "active", "deleted"}, role : Roles, password : Passwords]
Row == [user : Accounts, role : Roles, remember : BOOLEAN,
        left : 0..LongTtl, unused : 0..(Idle + 1)]
NoRow == [user |-> Nobody]

Names == Accounts \cup {Nobody}

\* began: how long ago the thread took the time; sid: the cookie.
Idling == [pc |-> "idle", name |-> Nobody, role |-> "member",
           sid |-> "none", began |-> 0]

TypeOK ==
    /\ user \in [Accounts -> User]
    /\ session \in [Sids -> Row \cup {NoRow}]
    /\ keys \subseteq Accounts
    /\ issued \subseteq Sids
    /\ at \in [Threads -> [pc : {"idle", "create", "touch", "act", "store"}, name : Names,
                           role : Roles, sid : Sids \cup {"none"},
                           began : 0..(Idle + 1)]]

EnvUsers == EnvAdmins \cup EnvMembers
EnvRole(a) == IF a \in EnvAdmins THEN "admin" ELSE "member"

\* _seed_users_to_db copies the users of the environment on the first run; some
\* may have been listed there since.
Init ==
    /\ \E seeded \in SUBSET EnvUsers :
         user = [a \in Accounts |->
                   [state |-> IF a \in seeded THEN "active" ELSE "absent",
                    role |-> EnvRole(a), password |-> "first"]]
    /\ session = [s \in Sids |-> NoRow]
    /\ keys = {}
    /\ issued = {}
    /\ at = [t \in Threads |-> Idling]

Become(t, a) == at' = [at EXCEPT ![t] = a]
Done(t) == Become(t, Idling)
Acting(t) == at[t].pc = "act"
Administering(t) == Acting(t) /\ at[t].role = "admin"

-----------------------------------------------------------------------------
(* Login *)

\* Mutant of Authentic: a deleted user goes on to the environment's users.
AuthenticAnyway(a, pw, r) ==
    \/ user[a].state = "active" /\ pw = user[a].password /\ r = user[a].role
    \/ a \in EnvUsers /\ pw = "first" /\ r = EnvRole(a)

\* authenticate: the users of the database, then those of the environment, to
\* whom a user of the database falls back when the password is not the one stored.
Authentic(a, pw, r) ==
    /\ user[a].state # "deleted"
    /\ \/ user[a].state = "active" /\ pw = user[a].password /\ r = user[a].role
       \/ /\ ~(user[a].state = "active" /\ pw = user[a].password)
          /\ a \in EnvUsers /\ pw = "first" /\ r = EnvRole(a)

\* login_user, up to the password check.
Login(t, a) ==
    /\ at[t].pc = "idle"
    /\ issued # Sids
    /\ \E pw \in Passwords, r \in Roles :
         /\ Authentic(a, pw, r)
         /\ Become(t, [Idling EXCEPT !.pc = "create", !.name = a, !.role = r])
    /\ UNCHANGED <<user, session, keys, issued>>

\* create_session: the row holds the role found by the check.
CreateSession(t) ==
    /\ at[t].pc = "create"
    /\ \E s \in Sids \ issued, remember \in BOOLEAN :
         /\ issued' = issued \cup {s}
         /\ session' = [session EXCEPT ![s] =
              [user |-> at[t].name, role |-> at[t].role, remember |-> remember,
               left |-> IF remember THEN LongTtl ELSE Ttl, unused |-> 0]]
    /\ Become(t, Idling)
    /\ UNCHANGED <<user, keys>>

-----------------------------------------------------------------------------
(* A request *)

\* get_session's two checks of a row.
Alive(s) ==
    /\ session[s] # NoRow
    /\ session[s].left > 0
    /\ session[s].remember \/ session[s].unused <= Idle

\* The first step of get_session, for a request that carries the cookie.
GetSession(t, s) ==
    /\ at[t].pc = "idle"
    /\ Alive(s)
    /\ Become(t, [Idling EXCEPT !.pc = "touch", !.sid = s,
                                !.name = session[s].user, !.role = session[s].role])
    /\ UNCHANGED <<user, session, keys, issued>>

\* Mutant of Touch: the row is written as a whole.
TouchUpserts(t) ==
    /\ at[t].pc = "touch"
    /\ session' = [session EXCEPT ![at[t].sid] =
         IF @ = NoRow THEN [user |-> at[t].name, role |-> at[t].role, remember |-> FALSE,
                            left |-> Ttl, unused |-> at[t].began]
         ELSE [@ EXCEPT !.unused = at[t].began]]
    /\ Become(t, [at[t] EXCEPT !.pc = "act", !.began = 0])
    /\ UNCHANGED <<user, keys, issued>>

\* Mutant of Touch: using a session prolongs it.
TouchProlongs(t) ==
    /\ at[t].pc = "touch"
    /\ session' = IF session[at[t].sid] = NoRow THEN session
                  ELSE [session EXCEPT ![at[t].sid].unused = at[t].began,
                                       ![at[t].sid].left = Ttl]
    /\ Become(t, [at[t] EXCEPT !.pc = "act", !.began = 0])
    /\ UNCHANGED <<user, keys, issued>>

\* UPDATE sessions SET last_active_at: a row that is gone meanwhile stays gone,
\* the request is served all the same.
Touch(t) ==
    /\ at[t].pc = "touch"
    /\ session' = IF session[at[t].sid] = NoRow THEN session
                  ELSE [session EXCEPT ![at[t].sid].unused = at[t].began]
    /\ Become(t, [at[t] EXCEPT !.pc = "act", !.began = 0])
    /\ UNCHANGED <<user, keys, issued>>

\* A request calls get_session for its authentication, for its role and for its
\* actor.  When the session has ended meanwhile it is refused, or goes on as
\* "cookie-user".
GetSessionAgain(t) ==
    /\ at[t].pc = "act" /\ at[t].sid # "none"
    /\ IF Alive(at[t].sid) THEN Become(t, [at[t] EXCEPT !.pc = "touch"])
       ELSE Done(t) \/ Become(t, [at[t] EXCEPT !.name = Nobody, !.sid = "none"])
    /\ UNCHANGED <<user, session, keys, issued>>

\* A request with an API key: the environment's, or one bound to an account.
\* Every key is an admin's.
UseKey(t, n) ==
    /\ at[t].pc = "idle"
    /\ n = Nobody \/ n \in keys
    /\ Become(t, [Idling EXCEPT !.pc = "act", !.name = n, !.role = "admin"])
    /\ UNCHANGED <<user, session, keys, issued>>

\* Requests that change nothing here, the refused ones included.
Read(t) ==
    /\ at[t].pc = "act"
    /\ Done(t)
    /\ UNCHANGED <<user, session, keys, issued>>

\* change_password checks the current password as a login does ...
CheckPassword(t) ==
    /\ Acting(t)
    /\ IF at[t].name # Nobody /\ \E pw \in Passwords, r \in Roles : Authentic(at[t].name, pw, r)
         THEN Become(t, [at[t] EXCEPT !.pc = "store"]) \/ Done(t)
         ELSE Done(t)
    /\ UNCHANGED <<user, session, keys, issued>>

\* ... and stores the new one; an account of the environment alone has no row.
ChangePassword(t) ==
    /\ at[t].pc = "store"
    /\ \E pw \in Passwords :
         user' = IF user[at[t].name].state = "absent" THEN user
                 ELSE [user EXCEPT ![at[t].name].password = pw]
    /\ Done(t)
    /\ UNCHANGED <<session, keys, issued>>

\* delete_user_session: one of the caller's own.
DropSession(t) ==
    /\ Acting(t)
    /\ \E s \in Sids :
         session' = IF session[s].user = at[t].name THEN [session EXCEPT ![s] = NoRow] ELSE session
    /\ Done(t)
    /\ UNCHANGED <<user, keys, issued>>

\* logout asks for no authentication; the cookie is enough.
Logout(t, s) ==
    /\ at[t].pc = "idle"
    /\ session[s] # NoRow
    /\ session' = [session EXCEPT ![s] = NoRow]
    /\ UNCHANGED <<user, keys, issued, at>>

-----------------------------------------------------------------------------
(* Administration *)

CreateUser(t, a) ==
    /\ Administering(t)
    /\ IF user[a].state # "absent" THEN user' = user
       ELSE \E r \in Roles, pw \in Passwords :
              user' = [user EXCEPT ![a] = [state |-> "active", role |-> r, password |-> pw]]
    /\ Done(t)
    /\ UNCHANGED <<session, keys, issued>>

\* admin_delete_user: soft deletion and the user's sessions, in one transaction.
DeleteUser(t, a) ==
    /\ Administering(t)
    /\ IF user[a].state = "active" /\ a # at[t].name
         THEN /\ user' = [user EXCEPT ![a].state = "deleted"]
              /\ session' = [s \in Sids |-> IF session[s].user = a THEN NoRow ELSE session[s]]
         ELSE UNCHANGED <<user, session>>
    /\ Done(t)
    /\ UNCHANGED <<keys, issued>>

RestoreUser(t, a) ==
    /\ Administering(t)
    /\ user' = IF user[a].state = "deleted" THEN [user EXCEPT ![a].state = "active"] ELSE user
    /\ Done(t)
    /\ UNCHANGED <<session, keys, issued>>

\* admin_set_user_role: of a deleted user too; sessions keep their role.
SetRole(t, a) ==
    /\ Administering(t)
    /\ \E r \in Roles :
         user' = IF user[a].state = "absent" THEN user ELSE [user EXCEPT ![a].role = r]
    /\ Done(t)
    /\ UNCHANGED <<session, keys, issued>>

\* admin_reset_password: the user's sessions stay.
ResetPassword(t, a) ==
    /\ Administering(t)
    /\ \E pw \in Passwords :
         user' = IF user[a].state = "absent" THEN user ELSE [user EXCEPT ![a].password = pw]
    /\ Done(t)
    /\ UNCHANGED <<session, keys, issued>>

\* Mutant of RotateKey: a key without an account is accepted.
RotateKeyNameless(t) ==
    /\ Administering(t)
    /\ keys' = keys \cup {at[t].name}
    /\ Done(t)
    /\ UNCHANGED <<user, session, issued>>

\* rotate_api_key adds a key of the caller's name; the old ones stay.  A key
\* without a name is stored, and found by nobody.
RotateKey(t) ==
    /\ Administering(t)
    /\ keys' = keys \cup ({at[t].name} \ {Nobody})
    /\ Done(t)
    /\ UNCHANGED <<user, session, issued>>

\* delete_api_key; an account with several keys keeps its others, which is Read.
DeleteKey(t) ==
    /\ Administering(t)
    /\ \E n \in Accounts : keys' = keys \ {n}
    /\ Done(t)
    /\ UNCHANGED <<user, session, issued>>

\* One unit of time.
Tick ==
    /\ session' = [s \in Sids |->
         IF session[s] = NoRow THEN NoRow
         ELSE [session[s] EXCEPT !.left = IF @ = 0 THEN 0 ELSE @ - 1,
                                 !.unused = IF @ > Idle THEN @ ELSE @ + 1]]
    /\ at' = [t \in Threads |->
         IF at[t].pc = "touch" /\ at[t].began <= Idle
           THEN [at[t] EXCEPT !.began = @ + 1] ELSE at[t]]
    /\ UNCHANGED <<user, keys, issued>>

-----------------------------------------------------------------------------

Serve(t) ==
    \/ CreateSession(t) \/ Touch(t) \/ GetSessionAgain(t) \/ Read(t)
    \/ CheckPassword(t) \/ ChangePassword(t) \/ DropSession(t) \/ RotateKey(t) \/ DeleteKey(t)
    \/ \E a \in Accounts : CreateUser(t, a) \/ DeleteUser(t, a) \/ RestoreUser(t, a)
                           \/ SetRole(t, a) \/ ResetPassword(t, a)

Next ==
    \/ \E t \in Threads :
         \/ Serve(t)
         \/ \E a \in Accounts : Login(t, a)
         \/ \E s \in Sids : GetSession(t, s) \/ Logout(t, s)
         \/ \E n \in Names : UseKey(t, n)
    \/ Tick

\* A request that has begun goes on, and time passes.
Fairness == WF_vars(Tick) /\ \A t \in Threads : WF_vars(Serve(t))

Spec == Init /\ [][Next]_vars
FairSpec == Spec /\ Fairness

-----------------------------------------------------------------------------
(* Properties *)

\* A session that has been ended -- by a logout, by the deletion of its user --
\* never comes back, although requests that read its row before go on to write
\* to it.
EndedStaysEnded ==
    [][\A s \in issued : session[s] = NoRow => session'[s] = NoRow]_vars

\* An account has a way in: a live row, a key, or a request past its checks.
Inside(a) ==
    \/ \E s \in Sids : session[s].user = a
    \/ \E t \in Threads : at[t].pc # "idle" /\ at[t].name = a
    \/ a \in keys

\* "软删除的语义是「禁止登录」" (docs/log/user-soft-delete.md:9): once a deleted
\* account has neither sessions nor keys nor requests past their checks, nothing
\* but its restoration lets it in again, not even its entry in AUTH_USERS.
OutStaysOut ==
    [][\A a \in Accounts : user[a].state = "deleted" /\ ~Inside(a)
                           => ~Inside(a)' \/ user'[a].state = "active"]_vars

\* The sessions of an account that stays deleted run out, those too that a login
\* in progress created after the deletion, however much they are used; so do the
\* admin sessions of an account that stays a member and that AUTH_USERS does not
\* list as an admin.
LostAccessRunsOut ==
    \A a \in Accounts :
        /\ <>[](user[a].state = "deleted")
             => <>[](\A s \in Sids : session[s].user = a => ~Alive(s))
        /\ <>[](user[a].role = "member") /\ a \notin EnvAdmins
             => <>[](\A s \in Sids : session[s].user = a /\ session[s].role = "admin"
                                         => ~Alive(s))

=============================================================================
