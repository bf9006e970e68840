---------------------------- MODULE AccessProofs ----------------------------
(***************************************************************************)
(* Proofs about Access, for any accounts, threads, session ids and         *)
(* lifetimes.                                                              *)
(***************************************************************************)
EXTENDS Access, TLAPS

\* What a thread can be at; the types in two parts, with the addition that a login
\* past its check is one of an account.
Place == [pc : {"idle", "create", "touch", "act", "store"}, name : Names,
          role : Roles, sid : Sids \cup {"none"}, began : 0..(Idle + 1)]

Tables ==
    /\ user \in [Accounts -> User]
    /\ session \in [Sids -> Row \cup {NoRow}]
    /\ keys \subseteq Accounts
    /\ issued \subseteq Sids

Seats ==
    /\ at \in [Threads -> Place]
    /\ \A t \in Threads : at[t].pc = "create" => at[t].name \in Accounts

NamedInv == Tables /\ Seats

LEMMA NamedType == NamedInv => TypeOK
BY DEF NamedInv, Tables, Seats, Place, TypeOK

LEMMA IdlingPlace == Idling \in Place /\ Idling.pc = "idle" /\ Idling.name = Nobody
BY AccessAssumption DEF Idling, Place, Names, Roles

\* A thread that turns to something it can be at.
LEMMA Turned ==
    ASSUME Seats, NEW t \in Threads, NEW a \in Place, Become(t, a),
           a.pc = "create" => a.name \in Accounts
    PROVE  Seats'
BY DEF Become, Seats

LEMMA Finished == ASSUME Seats, NEW t \in Threads, Become(t, Idling) PROVE Seats'
BY Turned, IdlingPlace

LEMMA NamedStep == NamedInv /\ [Next]_vars => NamedInv'
<1> SUFFICES ASSUME Tables, Seats, [Next]_vars PROVE Tables' /\ Seats'
  BY DEF NamedInv
<1> USE AccessAssumption
<1>1. ASSUME NEW t \in Threads, NEW b \in Accounts, Login(t, b) PROVE Tables' /\ Seats'
  <2>1. PICK r \in Roles :
          Become(t, [Idling EXCEPT !.pc = "create", !.name = b, !.role = r])
    BY <1>1 DEF Login
  <2> DEFINE a == [Idling EXCEPT !.pc = "create", !.name = b, !.role = r]
  <2>2. a \in Place /\ a.name = b
    BY IdlingPlace DEF Place, Names
  <2>3. Seats'
    BY <2>1, <2>2, Turned
  <2> QED
    BY <1>1, <2>3 DEF Login, Tables
<1>2. ASSUME NEW t \in Threads, CreateSession(t) PROVE Tables' /\ Seats'
  <2>1. PICK s \in Sids \ issued, remember \in BOOLEAN :
          /\ issued' = issued \cup {s}
          /\ session' = [session EXCEPT ![s] =
               [user |-> at[t].name, role |-> at[t].role, remember |-> remember,
                left |-> IF remember THEN LongTtl ELSE Ttl, unused |-> 0]]
    BY <1>2 DEF CreateSession
  <2>2. at[t].name \in Accounts /\ at[t].role \in Roles
    BY <1>2 DEF CreateSession, Seats, Place
  <2>3. [user |-> at[t].name, role |-> at[t].role, remember |-> remember,
         left |-> IF remember THEN LongTtl ELSE Ttl, unused |-> 0] \in Row
    BY <2>2 DEF Row
  <2>4. session' \in [Sids -> Row \cup {NoRow}] /\ issued' \subseteq Sids
    BY <2>1, <2>3 DEF Tables
  <2> QED
    BY <1>2, <2>4, Finished DEF CreateSession, Tables
<1>3. ASSUME NEW t \in Threads, NEW s \in Sids, GetSession(t, s) PROVE Tables' /\ Seats'
  <2>1. session[s] \in Row
    BY <1>3 DEF GetSession, Alive, Tables
  <2> DEFINE a == [Idling EXCEPT !.pc = "touch", !.sid = s, !.name = session[s].user,
                                 !.role = session[s].role]
  <2>2. Become(t, a)
    BY <1>3 DEF GetSession
  <2>3. session[s].user \in Names /\ session[s].role \in Roles
    BY <2>1 DEF Row, Names
  <2>4. a \in Place /\ a.pc = "touch"
    BY <2>3, IdlingPlace DEF Place
  <2>5. Seats'
    BY <2>2, <2>4, Turned
  <2> QED
    BY <1>3, <2>5 DEF GetSession, Tables
<1>4. ASSUME NEW t \in Threads, Touch(t) PROVE Tables' /\ Seats'
  <2>1. ASSUME NEW s \in Sids PROVE session'[s] \in Row \cup {NoRow}
    <3>1. CASE s = at[t].sid /\ session[s] # NoRow
      <4>1. session'[s] = [session[s] EXCEPT !.unused = at[t].began]
        BY <1>4, <3>1 DEF Touch, Tables
      <4>2. session[s] \in Row /\ at[t].began \in 0..(Idle + 1)
        BY <3>1 DEF Tables, Seats, Place
      <4> QED
        BY <4>1, <4>2 DEF Row
    <3>2. CASE ~(s = at[t].sid /\ session[s] # NoRow)
      BY <1>4, <3>2 DEF Touch, Tables
    <3> QED
      BY <3>1, <3>2
  <2>2. session' \in [Sids -> Row \cup {NoRow}]
    BY <1>4, <2>1 DEF Touch, Tables
  <2> DEFINE a == [at[t] EXCEPT !.pc = "act", !.began = 0]
  <2>a. Become(t, a)
    BY <1>4 DEF Touch
  <2>b. at[t] \in Place
    BY DEF Seats
  <2>c. 0 \in 0..(Idle + 1)
    OBVIOUS
  <2>3. a \in Place /\ a.pc = "act"
    BY <2>b, <2>c DEF Place
  <2>4. Seats'
    BY <2>a, <2>3, Turned
  <2> QED
    BY <1>4, <2>2, <2>4 DEF Touch, Tables
<1>5. ASSUME NEW t \in Threads, GetSessionAgain(t) PROVE Tables' /\ Seats'
  <2>1. PICK a \in {[at[t] EXCEPT !.pc = "touch"], Idling,
                    [at[t] EXCEPT !.name = Nobody, !.sid = "none"]} : Become(t, a)
    BY <1>5 DEF GetSessionAgain, Done
  <2>2. at[t] \in Place /\ at[t].pc = "act"
    BY <1>5 DEF GetSessionAgain, Seats
  <2>3. a \in Place /\ a.pc # "create"
    BY <2>1, <2>2, IdlingPlace DEF Place, Names
  <2>4. Seats'
    BY <2>1, <2>3, Turned
  <2> QED
    BY <1>5, <2>4 DEF GetSessionAgain, Tables
<1>6. ASSUME NEW t \in Threads, NEW n \in Names, UseKey(t, n) PROVE Tables' /\ Seats'
  <2> DEFINE a == [Idling EXCEPT !.pc = "act", !.name = n, !.role = "admin"]
  <2>1. Become(t, a)
    BY <1>6 DEF UseKey
  <2>2. a \in Place /\ a.pc = "act"
    BY IdlingPlace DEF Place, Roles
  <2>3. Seats'
    BY <2>1, <2>2, Turned
  <2> QED
    BY <1>6, <2>3 DEF UseKey, Tables
<1>7. ASSUME NEW t \in Threads, CheckPassword(t) PROVE Tables' /\ Seats'
  <2>1. PICK a \in {[at[t] EXCEPT !.pc = "store"], Idling} : Become(t, a)
    BY <1>7 DEF CheckPassword, Done
  <2>2. a \in Place /\ a.pc # "create"
    BY <2>1, IdlingPlace DEF Place, Seats
  <2>3. Seats'
    BY <2>1, <2>2, Turned
  <2> QED
    BY <1>7, <2>3 DEF CheckPassword, Tables
<1>8. ASSUME NEW t \in Threads, NEW b \in Accounts,
             \/ CreateUser(t, b) \/ RestoreUser(t, b) \/ SetRole(t, b) \/ ResetPassword(t, b)
      PROVE  Tables' /\ Seats'
  <2>1. user' \in [Accounts -> User]
    BY <1>8 DEF CreateUser, RestoreUser, SetRole, ResetPassword, Tables,
                User, Roles, Passwords
  <2>2. Become(t, Idling) /\ UNCHANGED <<session, keys, issued>>
    BY <1>8 DEF CreateUser, RestoreUser, SetRole, ResetPassword, Done
  <2> QED
    BY <2>1, <2>2, Finished DEF Tables
<1>9. ASSUME NEW t \in Threads, NEW b \in Accounts, DeleteUser(t, b) PROVE Tables' /\ Seats'
  <2>1. user' \in [Accounts -> User] /\ session' \in [Sids -> Row \cup {NoRow}]
    BY <1>9 DEF DeleteUser, Tables, User
  <2> QED
    BY <1>9, <2>1, Finished DEF DeleteUser, Done, Tables
<1>10. ASSUME NEW t \in Threads,
              Read(t) \/ DropSession(t) \/ RotateKey(t) \/ DeleteKey(t)
       PROVE  Tables' /\ Seats'
  <2>1. session' \in [Sids -> Row \cup {NoRow}]
    BY <1>10 DEF Read, DropSession, RotateKey, DeleteKey, Tables
  <2>2. keys' \subseteq Accounts
    BY <1>10 DEF Read, DropSession, RotateKey, DeleteKey, Tables, Seats, Place, Names
  <2>3. Become(t, Idling) /\ UNCHANGED <<user, issued>>
    BY <1>10 DEF Read, DropSession, RotateKey, DeleteKey, Done
  <2> QED
    BY <2>1, <2>2, <2>3, Finished DEF Tables
<1>11. ASSUME NEW t \in Threads, NEW s \in Sids, Logout(t, s) PROVE Tables' /\ Seats'
  BY <1>11 DEF Logout, Tables, Seats
<1>12. CASE Tick
  <2>1. ASSUME NEW s \in Sids PROVE session'[s] \in Row \cup {NoRow}
    <3>1. CASE session[s] = NoRow
      BY <1>12, <3>1 DEF Tick
    <3>2. CASE session[s] # NoRow
      <4>1. session[s] \in Row
        BY <3>2 DEF Tables
      <4> DEFINE left == IF session[s].left = 0 THEN 0 ELSE session[s].left - 1
                 unused == IF session[s].unused > Idle THEN session[s].unused
                           ELSE session[s].unused + 1
      <4>2. left \in 0..LongTtl /\ unused \in 0..(Idle + 1)
        BY <4>1 DEF Row
      <4>3. session'[s] = [session[s] EXCEPT !.left = left, !.unused = unused]
        BY <1>12, <3>2 DEF Tick
      <4> HIDE DEF left, unused
      <4> QED
        BY <4>1, <4>2, <4>3 DEF Row
    <3> QED
      BY <3>1, <3>2
  <2>2. session' \in [Sids -> Row \cup {NoRow}]
    BY <1>12, <2>1 DEF Tick
  <2>3. ASSUME NEW t \in Threads
        PROVE  at'[t] \in Place /\ at'[t].pc = at[t].pc /\ at'[t].name = at[t].name
    <3>1. at[t] \in Place /\ at[t].began \in 0..(Idle + 1)
      BY DEF Seats, Place
    <3>2. CASE at[t].pc = "touch" /\ at[t].began <= Idle
      <4>1. at'[t] = [at[t] EXCEPT !.began = at[t].began + 1]
        BY <1>12, <3>2 DEF Tick
      <4>2. at[t].began + 1 \in 0..(Idle + 1)
        BY <3>1, <3>2
      <4> QED
        BY <3>1, <4>1, <4>2 DEF Place
    <3>3. CASE ~(at[t].pc = "touch" /\ at[t].began <= Idle)
      BY <1>12, <3>1, <3>3 DEF Tick
    <3> QED
      BY <3>2, <3>3
  <2>4. Seats'
    BY <1>12, <2>3 DEF Tick, Seats
  <2> QED
    BY <1>12, <2>2, <2>4 DEF Tick, Tables
<1>13. CASE UNCHANGED vars
  BY <1>13 DEF vars, Tables, Seats
<1>14. ASSUME NEW t \in Threads, Serve(t) PROVE Tables' /\ Seats'
  <2>1. CASE \E b \in Accounts : \/ CreateUser(t, b) \/ DeleteUser(t, b) \/ RestoreUser(t, b)
                                \/ SetRole(t, b) \/ ResetPassword(t, b)
    BY <1>8, <1>9, <2>1
  <2>2. CASE ChangePassword(t)
    <3>1. PICK pw \in Passwords :
            user' = IF user[at[t].name].state = "absent" THEN user
                    ELSE [user EXCEPT ![at[t].name].password = pw]
      BY <2>2 DEF ChangePassword
    <3>2. user' \in [Accounts -> User]
      BY <3>1 DEF Tables, User
    <3> QED
      BY <2>2, <3>2, Finished DEF ChangePassword, Done, Tables
  <2> QED
    BY <1>2, <1>4, <1>5, <1>7, <1>10, <1>14, <2>1, <2>2 DEF Serve
<1> QED
  BY <1>1, <1>3, <1>6, <1>11, <1>12, <1>13, <1>14 DEF Next

LEMMA NamedInit == Init => NamedInv
<1> USE AccessAssumption
<1>1. Init => Tables
  BY DEF Init, Tables, EnvRole, Roles, Passwords, User
<1>2. Init => Seats
  BY IdlingPlace DEF Init, Seats
<1> QED
  BY <1>1, <1>2 DEF NamedInv

\* Every variable keeps its type; a row of the sessions names an account, never
\* the key of the environment.
THEOREM TypeCorrect == Spec => []TypeOK
BY NamedInit, NamedStep, NamedType, PTL DEF Spec

\* A session that was ended does not come back, whoever still holds its id.
THEOREM EndedSessionsStayEnded == Spec => EndedStaysEnded
<1>1. ASSUME NamedInv, Next, NEW s \in issued, session[s] = NoRow
      PROVE  session'[s] = NoRow
  <2> USE <1>1
  <2>0. s \in Sids /\ session \in [Sids -> Row \cup {NoRow}]
    BY DEF NamedInv, Tables
  <2>1. ASSUME NEW t \in Threads, CreateSession(t) PROVE session'[s] = NoRow
    BY <2>0, <2>1 DEF CreateSession
  <2>2. ASSUME NEW t \in Threads, Touch(t) PROVE session'[s] = NoRow
    BY <2>0, <2>2 DEF Touch
  <2>3. ASSUME NEW t \in Threads,
               DropSession(t) \/ \E b \in Accounts : DeleteUser(t, b)
        PROVE  session'[s] = NoRow
    BY <2>0, <2>3 DEF DropSession, DeleteUser
  <2>4. ASSUME NEW t \in Threads, NEW o \in Sids, Logout(t, o) PROVE session'[s] = NoRow
    BY <2>0, <2>4 DEF Logout
  <2>5. CASE Tick
    BY <2>0, <2>5 DEF Tick
  <2>6. ASSUME NEW t \in Threads, Serve(t) PROVE session'[s] = NoRow
    <3>1. CASE UNCHANGED session
      BY <3>1
    <3>2. CASE ~UNCHANGED session
      <4>1. \/ CreateSession(t) \/ Touch(t) \/ DropSession(t)
            \/ \E b \in Accounts : DeleteUser(t, b)
        BY <2>6, <3>2
        DEF Serve, GetSessionAgain, Read, CheckPassword, ChangePassword, RotateKey,
            DeleteKey, CreateUser, RestoreUser, SetRole, ResetPassword
      <4> QED
        BY <2>1, <2>2, <2>3, <4>1
    <3> QED
      BY <3>1, <3>2
  <2>7. ASSUME NEW t \in Threads, NEW b \in Accounts, Login(t, b) PROVE session'[s] = NoRow
    BY <2>7 DEF Login
  <2>8. ASSUME NEW t \in Threads, NEW o \in Sids, GetSession(t, o) PROVE session'[s] = NoRow
    BY <2>8 DEF GetSession
  <2>9. ASSUME NEW t \in Threads, NEW n \in Names, UseKey(t, n) PROVE session'[s] = NoRow
    BY <2>9 DEF UseKey
  <2> QED
    BY <2>4, <2>5, <2>6, <2>7, <2>8, <2>9 DEF Next
<1>2. NamedInv /\ [Next]_vars => [\A s \in issued : session[s] = NoRow => session'[s] = NoRow]_vars
  BY <1>1
<1> QED
  BY NamedInit, NamedStep, <1>2, PTL DEF Spec, EndedStaysEnded

\* A deleted account that is out stays out until it is restored.
THEOREM DeletedAccountsStayOut == Spec => OutStaysOut
<1>1. ASSUME NamedInv, Next, NEW a \in Accounts, user[a].state = "deleted", ~Inside(a)
      PROVE  ~Inside(a)' \/ user'[a].state = "active"
  <2> USE <1>1, AccessAssumption
  <2>0. /\ \A s \in Sids : session[s].user # a
        /\ \A t \in Threads : at[t].pc # "idle" => at[t].name # a
        /\ a \notin keys /\ a # Nobody
        /\ at \in [Threads -> Place]
        /\ session \in [Sids -> Row \cup {NoRow}]
    BY DEF Inside, NamedInv, Tables, Seats
  <2>a. SUFFICES /\ \A s \in Sids : session'[s].user # a
                 /\ \A t \in Threads : at'[t].pc # "idle" => at'[t].name # a
                 /\ a \notin keys'
    BY DEF Inside
  <2>b. Idling.pc = "idle" /\ NoRow.user = Nobody
    BY DEF Idling, NoRow
  <2> HIDE DEF NoRow, Idling
  <2>1. ASSUME NEW t \in Threads, NEW b \in Accounts, Login(t, b)
        PROVE  \A o \in Threads : at'[o].pc # "idle" => at'[o].name # a
    BY <2>0, <2>1 DEF Login, Authentic, Become, Idling
  <2>2. ASSUME NEW t \in Threads, NEW s \in Sids, GetSession(t, s)
        PROVE  \A o \in Threads : at'[o].pc # "idle" => at'[o].name # a
    BY <2>0, <2>2 DEF GetSession, Become, Idling
  <2>3. ASSUME NEW t \in Threads, NEW n \in Names, UseKey(t, n)
        PROVE  \A o \in Threads : at'[o].pc # "idle" => at'[o].name # a
    BY <2>0, <2>3 DEF UseKey, Become, Idling
  <2>4. ASSUME NEW t \in Threads, Serve(t)
        PROVE  \A o \in Threads : at'[o].pc # "idle" => at'[o].name # a
    <3>1. \A o \in Threads : at'[o].pc # "idle" => at'[o].name \in {at[o].name, Nobody}
      <4>1. CASE Become(t, Idling)
        BY <2>0, <2>b, <4>1 DEF Become
      <4>2. CASE Touch(t) \/ GetSessionAgain(t) \/ CheckPassword(t)
        <5>1. PICK b \in {[at[t] EXCEPT !.pc = "touch"], [at[t] EXCEPT !.pc = "store"],
                          [at[t] EXCEPT !.pc = "act", !.began = 0], Idling,
                          [at[t] EXCEPT !.name = Nobody, !.sid = "none"]} : Become(t, b)
          BY <4>2 DEF Touch, GetSessionAgain, CheckPassword, Done
        <5>2. b.pc # "idle" => b.name \in {at[t].name, Nobody}
          <6>1. at[t] \in Place
            BY <2>0
          <6> QED
            BY <2>b, <5>1, <6>1 DEF Place
        <5> QED
          BY <2>0, <5>1, <5>2 DEF Become
      <4> QED
        BY <2>4, <4>1, <4>2
        DEF Serve, CreateSession, Read, ChangePassword, DropSession, RotateKey, DeleteKey,
            CreateUser, DeleteUser, RestoreUser, SetRole, ResetPassword, Done
    <3>2. \A o \in Threads : at'[o].pc # "idle" => at[o].pc # "idle"
      <4>1. at[t].pc # "idle"
        BY <2>4
        DEF Serve, CreateSession, Touch, GetSessionAgain, Read, CheckPassword, ChangePassword,
            DropSession, RotateKey, DeleteKey, CreateUser, DeleteUser, RestoreUser, SetRole,
            ResetPassword, Acting, Administering
      <4>2. \A o \in Threads \ {t} : at'[o] = at[o]
        BY <2>0, <2>4
        DEF Serve, CreateSession, Touch, GetSessionAgain, Read, CheckPassword, ChangePassword,
            DropSession, RotateKey, DeleteKey, CreateUser, DeleteUser, RestoreUser, SetRole,
            ResetPassword, Done, Become
      <4> QED
        BY <4>1, <4>2
    <3> QED
      BY <2>0, <3>1, <3>2
  <2>5. CASE Tick
    <3>1. ASSUME NEW t \in Threads
          PROVE  at'[t].pc = at[t].pc /\ at'[t].name = at[t].name
      <4>1. at[t] \in Place
        BY <2>0
      <4> QED
        BY <2>5, <4>1 DEF Tick, Place
    <3>2. \A s \in Sids : session'[s].user \in {session[s].user, Nobody}
      BY <2>0, <2>5, <2>b DEF Tick, Row
    <3> QED
      BY <2>0, <2>5, <3>1, <3>2 DEF Tick
  <2>6. ASSUME NEW t \in Threads, Serve(t)
        PROVE  /\ \A s \in Sids : session'[s].user # a
               /\ a \notin keys'
    <3>1. CASE CreateSession(t)
      BY <2>0, <3>1 DEF CreateSession
    <3>2. CASE Touch(t)
      <4>1. \A s \in Sids : session'[s].user = session[s].user
        BY <2>0, <3>2 DEF Touch, Row
      <4> QED
        BY <2>0, <3>2, <4>1 DEF Touch
    <3>3. CASE DropSession(t) \/ \E b \in Accounts : DeleteUser(t, b)
      BY <2>0, <2>b, <3>3 DEF DropSession, DeleteUser
    <3>4. CASE RotateKey(t) \/ DeleteKey(t)
      BY <2>0, <3>4 DEF RotateKey, DeleteKey, Administering, Acting
    <3>5. CASE UNCHANGED <<session, keys>>
      BY <2>0, <3>5
    <3> QED
      BY <2>6, <3>1, <3>2, <3>3, <3>4, <3>5
      DEF Serve, GetSessionAgain, Read, CheckPassword, ChangePassword, CreateUser,
          RestoreUser, SetRole, ResetPassword
  <2>7. ASSUME NEW t \in Threads, NEW s \in Sids, Logout(t, s)
        PROVE  /\ \A o \in Sids : session'[o].user # a
               /\ UNCHANGED <<at, keys>>
    BY <2>0, <2>b, <2>7 DEF Logout
  <2>8. CASE Tick
    BY <2>5, <2>8
  <2>9. CASE \E t \in Threads :
               \/ \E b \in Accounts : Login(t, b)
               \/ \E s \in Sids : GetSession(t, s)
               \/ \E n \in Names : UseKey(t, n)
    BY <2>0, <2>1, <2>2, <2>3, <2>9 DEF Login, GetSession, UseKey
  <2> QED
    BY <2>0, <2>4, <2>6, <2>7, <2>8, <2>9 DEF Next
<1>2. NamedInv /\ [Next]_vars
        => [\A a \in Accounts : user[a].state = "deleted" /\ ~Inside(a)
                                => ~Inside(a)' \/ user'[a].state = "active"]_vars
  BY <1>1
<1> QED
  BY NamedInit, NamedStep, <1>2, PTL DEF Spec, OutStaysOut

=============================================================================
